---- MODULE Spec2Model ----
(***************************************************************************)
(* Forecasting and procurement recommendation engine of ForecastMP.        *)
(*                                                                         *)
(*   Spec          analyze_product_procurement run against a store of      *)
(*                 snapshots, sales aggregates, purchase-order items,      *)
(*                 product attributes and forecasts                        *)
(*   SpecFn        the ProcurementAnalyzer calculations applied to drawn   *)
(*                 arguments                                               *)
(*   SpecForecast  SimpleForecaster and DemandForecaster.predict and the   *)
(*                 Forecast rows stored from them                          *)
(*   SpecBatch     the company batch tasks over a drawn list of products   *)
(*   SpecOrders    purchase orders of one company: creation, status        *)
(*                 updates and receipts                                    *)
(*   SpecTenant    the procurement views answering a user of another       *)
(*                 company                                                 *)
(*   SpecFeatures  FeatureEngineer.engineer_features applied to a drawn    *)
(*                 frame, row by row                                       *)
(*   SpecAggregates  update_daily_aggregates run on drawn sales            *)
(*                 transactions of two products                            *)
(*   SpecTransfer  InventoryService.transfer_stock called concurrently on  *)
(*                 the snapshots of one product and date                   *)
(*   SpecForecaster  train and predict called, in any order, on one        *)
(*                 DemandForecaster with one drawn history                 *)
(*                                                                         *)
(* Numbers.  A Decimal burn rate is the exact quotient [num, den]; the     *)
(* stores below keep at most two aggregate days inside one lookback        *)
(* window, so every quotient is a terminating decimal and Decimal          *)
(* arithmetic on it is exact.  The analyzer's calculations are also        *)
(* applied to burn rates that do not terminate; runway, required           *)
(* inventory and lead-time demand then divide and multiply as Decimal      *)
(* does, to 28 significant digits.  Scores and bounds that the code keeps  *)
(* as float or Decimal are carried in hundredths, the resolution of the    *)
(* DecimalField(decimal_places=2) columns they are stored in, rounded      *)
(* down.  The moving averages and their weighted sum are float in the      *)
(* code and exact quotients here.  generate_product_forecast asks the      *)
(* regression forecaster for 30 days; here it asks for the drawn horizon.  *)
(***************************************************************************)
EXTENDS Integers, Sequences, FiniteSets, TLC

VARIABLES
    snapshots,        \* InventorySnapshot rows of the product
    aggregates,       \* DailySalesAggregate rows of the product
    po_items,         \* PurchaseOrderItem rows of the product, with the order's status
    attributes,       \* ProductAttributes row of the product ({} when not configured)
    forecasts,        \* Forecast rows of the product
    recommendations,  \* ProcurementRecommendation rows of the product
    fn_in,            \* SpecFn: the drawn arguments
    fn_out,           \* SpecFn: what the latest calculation returned
    sales_data,       \* SpecForecast: the product's sales history, oldest first
    horizon,          \* SpecForecast: requested number of forecast days
    fc,               \* SpecForecast: forecaster run state
    batch,            \* SpecBatch: the company's products and the latest batch result
    orders,           \* SpecOrders, SpecTenant: PurchaseOrder rows with their items
    response          \* SpecOrders, SpecTenant: the response to the latest request

vars == <<snapshots, aggregates, po_items, attributes, forecasts,
          recommendations, fn_in, fn_out, sales_data, horizon, fc, batch,
          orders, response>>

\* the state of the specifications that follow the forecasters
ext_vars == <<batch, orders, response>>

db_vars == <<snapshots, aggregates, po_items, attributes>>

----------------------------------------------------------------------------
(* Bounds of the model *)

MaxQty == 1          \* largest total_quantity of a daily aggregate in the store
MaxRunway == 10      \* largest runway_days argument drawn for calculate_priority_score
MaxTail == 1         \* number of freely drawn days at the end of a sales history
MaxHorizon == 2      \* largest number of forecast days requested
MaxProducts == 3     \* largest number of active products of the company
MaxReceived == 2     \* largest quantity_received recorded on a line item
MaxRows == 8         \* largest number of rows of a frame given to engineer_features
MaxDay == 3          \* last day that has sales transactions
MaxStock == 2        \* largest quantity a snapshot starts with and a transfer asks for
MaxCalls == 3        \* largest number of transfer_stock calls made

----------------------------------------------------------------------------
(* Small arithmetic helpers *)

Max(a, b) == IF a >= b THEN a ELSE b
Min(a, b) == IF a <= b THEN a ELSE b

\* int(x) of Python for the quotient n / d with d > 0: truncation toward zero
TruncDiv(n, d) == IF n >= 0 THEN n \div d ELSE -((-n) \div d)

\* floor(p * c / 100), computed without leaving the 32-bit integers
MulDiv100(p, c) == p * (c \div 100) + (p * (c % 100)) \div 100

RECURSIVE SumOver(_, _)
\* sum of f[x] over the finite set S
SumOver(S, f) ==
    IF S = {} THEN 0
    ELSE LET x == CHOOSE y \in S : TRUE IN f[x] + SumOver(S \ {x}, f)

----------------------------------------------------------------------------
(* Decimal arithmetic of Python: a quotient or product is rounded half-even  *)
(* to prec significant digits.  For b = Decimal(num) / Decimal(den) that     *)
(* does not terminate, b = num / den + e / (den * 10^scale), where scale is  *)
(* the number of decimal places of b and e the rounding error in units of    *)
(* the last place times den.                                                 *)

\* decimal.getcontext().prec
prec == 28

RECURSIVE Digits(_)
\* the digits of the natural number n (none for 0), least significant first
Digits(n) == IF n = 0 THEN <<>> ELSE <<n % 10>> \o Digits(n \div 10)

RECURSIVE TenPow(_)
\* 10^k
TenPow(k) == IF k <= 0 THEN 1 ELSE 10 * TenPow(k - 1)

RECURSIVE TimesTenPowMod(_, _, _)
\* (x * 10^k) mod d
TimesTenPowMod(x, k, d) == IF k = 0 THEN x % d ELSE TimesTenPowMod((x * 10) % d, k - 1, d)

\* Decimal(num) / Decimal(den) for 0 < num, den when it does not terminate:
\* its number of decimal places and its rounding error e (e > 0: rounded up)
DecimalQuotient(num, den) ==
    LET whole == num \div den
        zeros == CHOOSE z \in 0..9 : num * TenPow(z + 1) >= den
                                     /\ (z = 0 \/ num * TenPow(z) < den)
        scale == IF whole > 0 THEN prec - Len(Digits(whole)) ELSE prec + zeros
        rem == TimesTenPowMod(num, scale, den)
    IN [scale |-> scale, e |-> IF 2 * rem > den THEN den - rem ELSE 0 - rem]

\* a <= b * 10^k for natural numbers a, b and an integer k
LeqTenPow(a, b, k) == IF k >= 0 THEN a <= b * TenPow(k) ELSE a * TenPow(0 - k) <= b

\* int(n / b) for an integer n >= 0 and the Decimal b = Decimal(num) / Decimal(den)
\* when that quotient does not terminate.  The result is the integer part k of
\* the exact n * den / num unless that is a whole number and b was rounded up:
\* then n / b lies below k, and Decimal rounds it to k only when it is within
\* half a unit of the last place of k
IntOfQuotient(n, num, den) ==
    LET b == DecimalQuotient(num, den)
        k == (n * den) \div num
        places == b.scale - prec + Len(Digits(k - 1))
    IN IF n = 0 \/ (n * den) % num # 0 \/ b.e < 0 THEN k
       ELSE IF LeqTenPow(2 * k * b.e, num, places) THEN k
       ELSE k - 1

\* int(b * m) for a natural number m and the Decimal b = Decimal(num) / Decimal(den)
\* when that quotient does not terminate.  The result is the integer part t of
\* the exact num * m / den unless that is a whole number and b was rounded
\* down: then b * m lies below t, and Decimal rounds it to t only when it is
\* within half a unit of the last place of t
IntOfProduct(num, den, m) ==
    LET b == DecimalQuotient(num, den)
        t == (num * m) \div den
        places == b.scale - prec + Len(Digits(t - 1))
    IN IF m = 0 \/ (num * m) % den # 0 \/ b.e > 0 THEN t
       ELSE IF LeqTenPow(2 * (0 - b.e) * m, den, places) THEN t
       ELSE t - 1

RECURSIVE Terminates(_)
\* the quotients by d that are finite decimals are those with d = 2^i * 5^j,
\* once common factors are cancelled
Terminates(d) ==
    IF d % 2 = 0 THEN Terminates(d \div 2)
    ELSE IF d % 5 = 0 THEN Terminates(d \div 5)
    ELSE d = 1

RECURSIVE Gcd(_, _)
Gcd(a, b) == IF b = 0 THEN a ELSE Gcd(b, a % b)

\* int(daily_burn_rate * days) for a burn rate >= 0 and a natural number of days
IntOfBurnTimes(daily_burn_rate, days) ==
    IF daily_burn_rate.num = 0
          \/ Terminates(daily_burn_rate.den \div Gcd(daily_burn_rate.num, daily_burn_rate.den))
    THEN TruncDiv(daily_burn_rate.num * days, daily_burn_rate.den)
    ELSE IntOfProduct(daily_burn_rate.num, daily_burn_rate.den, days)

----------------------------------------------------------------------------
(* Dates, as day numbers *)

AnalysisDates == {30, 31}
AggregateDates == {0, 30, 31}
Warehouses == {1, 2}
StockLevels == {0, 1}

lookback_days == 30

----------------------------------------------------------------------------
(* procurement/models.py *)

ACTION_CATEGORIES == {"ORDER_TODAY", "ALREADY_ORDERED", "ATTENTION_REQUIRED", "NORMAL"}

STATUS_CHOICES == {"DRAFT", "SUBMITTED", "CONFIRMED", "IN_TRANSIT", "DELIVERED", "CANCELLED"}

\* PurchaseOrderItem.quantity_in_transit
quantity_in_transit(item) == Max(0, item.quantity_ordered - item.quantity_received)

----------------------------------------------------------------------------
(* procurement/analyzer.py: ProcurementAnalyzer *)

\* __init__: the product's settings, or the defaults when it has no attributes
ProcurementAnalyzer(attrs, current_date) ==
    LET a == CHOOSE r \in attrs : TRUE
    IN [current_date |-> current_date,
        reorder_threshold |-> IF attrs # {} THEN a.reorder_threshold_days ELSE 7,
        lead_time |-> IF attrs # {} THEN a.lead_time_days ELSE 14,
        safety_stock_days |-> IF attrs # {} THEN a.safety_stock_days ELSE 3,
        min_order_qty |-> IF attrs # {} THEN a.minimum_order_quantity ELSE 1]

\* get_current_inventory: the values the query can return.  The rows are
\* filtered on snapshot_date = current_date and ordered by snapshot_date only,
\* so which of several warehouses' rows comes first is left to the store.
get_current_inventory(self, snaps) ==
    LET rows == {s \in snaps : s.snapshot_date = self.current_date}
    IN IF rows = {} THEN {0} ELSE {s.quantity_available : s \in rows}

\* calculate_daily_burn_rate
calculate_daily_burn_rate(self, aggs) ==
    LET start_date == self.current_date - lookback_days
        rows == {a \in aggs : a.date >= start_date /\ a.date <= self.current_date}
        qty == [a \in rows |-> a.total_quantity]
        total_quantity == SumOver(rows, qty)
        days_with_sales == Cardinality(rows)
    IN IF days_with_sales = 0 THEN [num |-> 0, den |-> 1]
       ELSE [num |-> total_quantity, den |-> days_with_sales]

\* calculate_runway_days with a stocked-out answer when nothing sells
calculate_runway_days_zero(current_stock, daily_burn_rate) ==
    IF daily_burn_rate.num <= 0 THEN 0
    ELSE Max(0, TruncDiv(current_stock * daily_burn_rate.den, daily_burn_rate.num))

\* calculate_runway_days.  current_stock / daily_burn_rate is a Decimal division:
\* exact when the burn rate is a finite decimal, rounded to prec digits otherwise
calculate_runway_days(current_stock, daily_burn_rate) ==
    IF daily_burn_rate.num <= 0 THEN 999
    ELSE IF current_stock < 0
            \/ Terminates(daily_burn_rate.den \div Gcd(daily_burn_rate.num, daily_burn_rate.den))
    THEN Max(0, TruncDiv(current_stock * daily_burn_rate.den, daily_burn_rate.num))
    ELSE Max(0, IntOfQuotient(current_stock, daily_burn_rate.num, daily_burn_rate.den))

\* calculate_stockout_date
calculate_stockout_date(self, runway_days) == self.current_date + runway_days

\* get_in_transit_quantity without the filter on the order's status
get_in_transit_quantity_any_status(items) ==
    LET qty == [i \in items |-> quantity_in_transit(i)]
    IN SumOver(items, qty)

\* get_in_transit_quantity
get_in_transit_quantity(items) ==
    LET in_transit_statuses == {"SUBMITTED", "CONFIRMED", "IN_TRANSIT"}
        rows == {i \in items : i.status \in in_transit_statuses}
        qty == [i \in rows |-> quantity_in_transit(i)]
    IN SumOver(rows, qty)

\* calculate_recommended_quantity without the minimum order quantity
calculate_recommended_quantity_nomin(self, daily_burn_rate, current_stock, in_transit_qty) ==
    IF daily_burn_rate.num <= 0 THEN 0
    ELSE LET total_coverage_days == self.lead_time + self.safety_stock_days
             required_inventory ==
                 IntOfBurnTimes(daily_burn_rate, total_coverage_days)
             available_inventory == current_stock + in_transit_qty
             recommended == required_inventory - available_inventory
         IN Max(0, recommended)

\* calculate_recommended_quantity
calculate_recommended_quantity(self, daily_burn_rate, current_stock, in_transit_qty) ==
    IF daily_burn_rate.num <= 0 THEN 0
    ELSE LET total_coverage_days == self.lead_time + self.safety_stock_days
             required_inventory ==
                 IntOfBurnTimes(daily_burn_rate, total_coverage_days)
             available_inventory == current_stock + in_transit_qty
             recommended == required_inventory - available_inventory
         IN Max(0, IF 0 < recommended /\ recommended < self.min_order_qty
                   THEN self.min_order_qty ELSE recommended)

\* calculate_priority_score with the ramp below the threshold rising with the runway
calculate_priority_score_rising(self, runway_days, daily_burn_rate, forecast_confidence) ==
    LET base == IF runway_days <= 0 THEN [n |-> 100, d |-> 1]
                ELSE IF runway_days <= self.reorder_threshold
                THEN [n |-> 70 * self.reorder_threshold + 30 * runway_days,
                      d |-> self.reorder_threshold]
                ELSE [n |-> Max(0, 70 - (runway_days - self.reorder_threshold) * 2),
                      d |-> 1]
        vel == IF 5 * (100 * daily_burn_rate.den + daily_burn_rate.num)
                    >= 6 * 100 * daily_burn_rate.den
               THEN [n |-> 6, d |-> 5]
               ELSE [n |-> 100 * daily_burn_rate.den + daily_burn_rate.num,
                     d |-> 100 * daily_burn_rate.den]
        confidence == IF forecast_confidence = {} THEN 10000
                      ELSE CHOOSE c \in forecast_confidence : TRUE
        priority == MulDiv100(base.n * vel.n, confidence) \div (base.d * vel.d)
    IN Min(10000, Max(0, priority))

\* calculate_priority_score returning the product as it is
calculate_priority_score_unclamped(self, runway_days, daily_burn_rate, forecast_confidence) ==
    LET base == IF runway_days <= 0 THEN [n |-> 100, d |-> 1]
                ELSE IF runway_days <= self.reorder_threshold
                THEN [n |-> 70 * self.reorder_threshold
                            + 30 * (self.reorder_threshold - runway_days),
                      d |-> self.reorder_threshold]
                ELSE [n |-> Max(0, 70 - (runway_days - self.reorder_threshold) * 2),
                      d |-> 1]
        vel == IF 5 * (100 * daily_burn_rate.den + daily_burn_rate.num)
                    >= 6 * 100 * daily_burn_rate.den
               THEN [n |-> 6, d |-> 5]
               ELSE [n |-> 100 * daily_burn_rate.den + daily_burn_rate.num,
                     d |-> 100 * daily_burn_rate.den]
        confidence == IF forecast_confidence = {} THEN 10000
                      ELSE CHOOSE c \in forecast_confidence : TRUE
    IN MulDiv100(base.n * vel.n, confidence) \div (base.d * vel.d)

\* calculate_priority_score, in hundredths.  base_score is base.n / base.d,
\* velocity_multiplier is vel.n / vel.d; forecast_confidence is {} for None or
\* {c} for a confidence_score of c hundredths, so that the product
\* base_score x velocity_multiplier x confidence / 100 is, in hundredths,
\* base.n x vel.n x c / (100 x base.d x vel.d).
calculate_priority_score(self, runway_days, daily_burn_rate, forecast_confidence) ==
    LET base == IF runway_days <= 0 THEN [n |-> 100, d |-> 1]
                ELSE IF runway_days <= self.reorder_threshold
                THEN [n |-> 70 * self.reorder_threshold
                            + 30 * (self.reorder_threshold - runway_days),
                      d |-> self.reorder_threshold]
                ELSE [n |-> Max(0, 70 - (runway_days - self.reorder_threshold) * 2),
                      d |-> 1]
        vel == IF 5 * (100 * daily_burn_rate.den + daily_burn_rate.num)
                    >= 6 * 100 * daily_burn_rate.den
               THEN [n |-> 6, d |-> 5]
               ELSE [n |-> 100 * daily_burn_rate.den + daily_burn_rate.num,
                     d |-> 100 * daily_burn_rate.den]
        confidence == IF forecast_confidence = {} THEN 10000
                      ELSE CHOOSE c \in forecast_confidence : TRUE
        priority == MulDiv100(base.n * vel.n, confidence) \div (base.d * vel.d)
    IN Min(10000, Max(0, priority))

\* determine_action_category asking the order to exceed the lead-time demand
determine_action_category_strict(self, runway_days, in_transit_qty, recommended_qty, daily_burn_rate) ==
    IF in_transit_qty > 0
    THEN LET lead_time_demand ==
                 IntOfBurnTimes(daily_burn_rate, self.lead_time)
         IN IF in_transit_qty > lead_time_demand THEN "ALREADY_ORDERED"
            ELSE "ATTENTION_REQUIRED"
    ELSE IF runway_days <= self.reorder_threshold /\ recommended_qty > 0
    THEN "ORDER_TODAY"
    ELSE IF recommended_qty > 0 /\ 2 * runway_days <= 3 * self.reorder_threshold
    THEN "ATTENTION_REQUIRED"
    ELSE "NORMAL"

\* determine_action_category
determine_action_category(self, runway_days, in_transit_qty, recommended_qty, daily_burn_rate) ==
    IF in_transit_qty > 0
    THEN LET lead_time_demand ==
                 IntOfBurnTimes(daily_burn_rate, self.lead_time)
         IN IF in_transit_qty >= lead_time_demand THEN "ALREADY_ORDERED"
            ELSE "ATTENTION_REQUIRED"
    ELSE IF runway_days <= self.reorder_threshold /\ recommended_qty > 0
    THEN "ORDER_TODAY"
    ELSE IF recommended_qty > 0 /\ 2 * runway_days <= 3 * self.reorder_threshold
    THEN "ATTENTION_REQUIRED"
    ELSE "NORMAL"

\* One sentence of the notes: the fixed text and the number formatted into it
Note(text, n) == [text |-> text, n |-> n]

OUT_OF_STOCK == Note("Currently out of stock!", 0)

\* _generate_notes flagging the stock-out only on the critical list
generate_notes_critical(runway_days, current_stock, in_transit_qty, recommended_qty, action_category) ==
    IF action_category = "ORDER_TODAY"
    THEN <<Note("Critical: Only {} days of inventory remaining.", runway_days),
           Note("Recommended order: {} units.", recommended_qty)>>
         \o (IF current_stock = 0 THEN <<OUT_OF_STOCK>> ELSE <<>>)
    ELSE IF action_category = "ALREADY_ORDERED"
    THEN <<Note("Purchase order in transit: {} units.", in_transit_qty),
           Note("Current runway: {} days.", runway_days)>>
    ELSE IF action_category = "ATTENTION_REQUIRED"
    THEN <<Note("Attention needed: {} days runway.", runway_days)>>
         \o (IF in_transit_qty > 0
             THEN <<Note("Partial coverage from PO: {} units.", in_transit_qty),
                    Note("Additional {} units may be needed.", recommended_qty)>>
             ELSE <<>>)
    ELSE <<Note("Inventory healthy: {} days runway.", runway_days)>>

\* _generate_notes: the sentences that are joined with " "
generate_notes(runway_days, current_stock, in_transit_qty, recommended_qty, action_category) ==
    LET notes ==
          IF action_category = "ORDER_TODAY"
          THEN <<Note("Critical: Only {} days of inventory remaining.", runway_days),
                 Note("Recommended order: {} units.", recommended_qty)>>
          ELSE IF action_category = "ALREADY_ORDERED"
          THEN <<Note("Purchase order in transit: {} units.", in_transit_qty),
                 Note("Current runway: {} days.", runway_days)>>
          ELSE IF action_category = "ATTENTION_REQUIRED"
          THEN <<Note("Attention needed: {} days runway.", runway_days)>>
               \o (IF in_transit_qty > 0
                   THEN <<Note("Partial coverage from PO: {} units.", in_transit_qty),
                          Note("Additional {} units may be needed.", recommended_qty)>>
                   ELSE <<>>)
          ELSE <<Note("Inventory healthy: {} days runway.", runway_days)>>
    IN IF current_stock = 0 THEN Append(notes, OUT_OF_STOCK) ELSE notes

\* analyze, after its three reads (current stock, burn rate, in-transit quantity)
analyze(self, current_stock, daily_burn_rate, in_transit_qty, forecast_confidence) ==
    LET runway_days == calculate_runway_days(current_stock, daily_burn_rate)
        stockout_date == calculate_stockout_date(self, runway_days)
        recommended_qty ==
            calculate_recommended_quantity(self, daily_burn_rate, current_stock, in_transit_qty)
        priority_score ==
            calculate_priority_score(self, runway_days, daily_burn_rate, forecast_confidence)
        action_category ==
            determine_action_category(self, runway_days, in_transit_qty, recommended_qty,
                                      daily_burn_rate)
        notes == generate_notes(runway_days, current_stock, in_transit_qty, recommended_qty,
                                action_category)
    IN [analysis_date |-> self.current_date,
        current_stock |-> current_stock,
        daily_burn_rate |-> daily_burn_rate,
        runway_days |-> runway_days,
        stockout_date |-> stockout_date,
        recommended_quantity |-> recommended_qty,
        action_category |-> action_category,
        priority_score |-> priority_score,
        notes |-> notes,
        metadata |-> [in_transit_quantity |-> in_transit_qty,
                      reorder_threshold |-> self.reorder_threshold,
                      lead_time |-> self.lead_time,
                      safety_stock_days |-> self.safety_stock_days]]

----------------------------------------------------------------------------
(* procurement/tasks.py *)

\* get_latest_forecast_confidence: {} for None
get_latest_forecast_confidence(fcs, target_date) ==
    {f.confidence_score : f \in {g \in fcs : g.forecast_date = target_date}}

\* ProcurementRecommendation.objects.update_or_create(product, analysis_date, defaults)
update_or_create(table, row) ==
    IF \E r \in table : r.analysis_date = row.analysis_date
    THEN {IF r.analysis_date = row.analysis_date THEN row ELSE r : r \in table}
    ELSE table \cup {row}

\* analyze_product_procurement(product_id, analysis_date) for the product of the store
analyze_product_procurement(analysis_date) ==
    LET analyzer == ProcurementAnalyzer(attributes, analysis_date)
        forecast_confidence == get_latest_forecast_confidence(forecasts, analysis_date)
    IN \E current_stock \in get_current_inventory(analyzer, snapshots) :
         LET analysis_result ==
                 analyze(analyzer, current_stock,
                         calculate_daily_burn_rate(analyzer, aggregates),
                         get_in_transit_quantity(po_items), forecast_confidence)
         IN /\ recommendations' = update_or_create(recommendations, analysis_result)
            /\ UNCHANGED <<db_vars, ext_vars, forecasts, fn_in, fn_out, sales_data, horizon, fc>>

----------------------------------------------------------------------------
(* The stores analyze_product_procurement reads *)

\* InventorySnapshot: unique per (product, warehouse, snapshot_date)
SnapshotStores ==
    {S \in SUBSET [warehouse : Warehouses, snapshot_date : AnalysisDates,
                   quantity_available : StockLevels] :
         \A r1, r2 \in S :
             (r1.warehouse = r2.warehouse /\ r1.snapshot_date = r2.snapshot_date) => r1 = r2}

\* DailySalesAggregate: unique per (product, date)
AggregateStores ==
    {S \in SUBSET [date : AggregateDates, total_quantity : 0..MaxQty] :
         \A r1, r2 \in S : r1.date = r2.date => r1 = r2}

\* PurchaseOrderItem of the product in the one purchase order of the store
ItemStores ==
    {{}} \cup {{[purchase_order |-> 1, status |-> st,
                 quantity_ordered |-> 4, quantity_received |-> 1]} : st \in STATUS_CHOICES}

\* ProductAttributes: absent, or configured
AttributeStores ==
    {{}, {[reorder_threshold_days |-> 1, lead_time_days |-> 3,
           safety_stock_days |-> 1, minimum_order_quantity |-> 3]}}

\* Forecast: unique per (product, forecast_date); bounds and score in hundredths
ForecastStores ==
    {{}, {[forecast_date |-> 31, predicted_quantity |-> 1, confidence_lower |-> 0,
           confidence_upper |-> 200, confidence_score |-> 5000,
           model_version |-> "v1.0"]}}

NoFn == [op |-> "none"]

InitIdleFn == fn_in = NoFn /\ fn_out = {}
NoRun == [pc |-> "idle", status |-> "none", rows |-> <<>>]

InitIdleForecast == sales_data = <<>> /\ horizon = 0 /\ fc = NoRun

\* no batch has run and no company is loaded
NoBatch == [products |-> <<>>, task |-> "none", result |-> [status |-> "none"]]
\* no request has been answered
\* request is what the view was called with, shown the companies whose rows it returned
NoResponse == [view |-> "none", user |-> "none", request |-> <<>>, code |-> 0, shown |-> {}]
InitIdleExt == batch = NoBatch /\ orders = {} /\ response = NoResponse
InitIdleStore ==
    /\ snapshots = {} /\ aggregates = {} /\ po_items = {} /\ attributes = {}
    /\ forecasts = {} /\ recommendations = {}

Init ==
    /\ snapshots \in SnapshotStores
    /\ aggregates \in AggregateStores
    /\ po_items \in ItemStores
    /\ attributes \in AttributeStores
    /\ forecasts \in ForecastStores
    /\ recommendations = {}
    /\ InitIdleFn
    /\ InitIdleForecast
    /\ InitIdleExt

\* The orchestrator runs, or retries, the analysis of the product for a date
Analyze == \E analysis_date \in AnalysisDates : analyze_product_procurement(analysis_date)

Next == Analyze

Spec == Init /\ [][Next]_vars

----------------------------------------------------------------------------
(* SpecFn: the analyzer's calculations applied to drawn arguments *)

StockArgs == {0, 5}
BurnRateArgs == {[num |-> 0, den |-> 1], [num |-> 1, den |-> 2],
                 [num |-> 5, den |-> 2], [num |-> 25, den |-> 1],
                 [num |-> 7, den |-> 17]}
InTransitArgs == {0, 3, 40}
ConfidenceArgs == {{}, {-1000}, {5000}, {12000}}
RunwayArgs == 0..MaxRunway \cup {999}

\* ProductAttributes created with the defaults of its four procurement fields
DefaultsConfigured ==
    {[reorder_threshold_days |-> 7, lead_time_days |-> 14,
      safety_stock_days |-> 3, minimum_order_quantity |-> 1]}

\* product.extended_attributes of the product analysed
FnAttributeStores == AttributeStores \cup {DefaultsConfigured}

\* the in_transit_qty and recommended_qty determine_action_category is called with
CategoryInTransitArgs == {0, 7, 40}
RecommendedArgs == {0, 5}

\* the current_stock and daily_burn_rate calculate_runway_days is called with
RunwayStockArgs == {0, 2, 5}
RunwayBurnArgs == {[num |-> 1, den |-> 2], [num |-> 5, den |-> 2],
                   [num |-> 2, den |-> 3], [num |-> 5, den |-> 3]}

NoOut == [recommended |-> {}, priority |-> {}, analysis |-> {}, category |-> {},
          runway |-> {}]

InitFn ==
    /\ fn_in \in [op : {"args"},
                  current_stock : StockArgs,
                  daily_burn_rate : BurnRateArgs,
                  in_transit_qty : InTransitArgs,
                  attributes : FnAttributeStores,
                  forecast_confidence : ConfidenceArgs]
    /\ fn_out = NoOut
    /\ InitIdleStore
    /\ InitIdleForecast
    /\ InitIdleExt

FnSelf == ProcurementAnalyzer(fn_in.attributes, 31)

\* each of the four calls below is made once, on the arguments drawn
\* calculate_recommended_quantity(daily_burn_rate, current_stock, in_transit_qty)
ApplyRecommendedQuantity ==
    /\ fn_out = NoOut
    /\ fn_out' = [NoOut EXCEPT !.recommended =
                     {calculate_recommended_quantity(FnSelf, fn_in.daily_burn_rate,
                                                     fn_in.current_stock, fn_in.in_transit_qty)}]
    /\ UNCHANGED <<db_vars, ext_vars, forecasts, recommendations, fn_in, sales_data, horizon, fc>>

\* calculate_priority_score called for two runway values, all else held fixed
ApplyPriorityScore ==
    \E r1, r2 \in RunwayArgs :
      /\ fn_out = NoOut
      /\ r1 <= r2
      /\ fn_out' = [NoOut EXCEPT !.priority =
                       {[runway_days |-> r,
                         priority_score |->
                             calculate_priority_score(FnSelf, r, fn_in.daily_burn_rate,
                                                      fn_in.forecast_confidence)] :
                        r \in {r1, r2}}]
      /\ UNCHANGED <<db_vars, ext_vars, forecasts, recommendations, fn_in, sales_data, horizon, fc>>

\* analyze(forecast_confidence) with the three reads returning the drawn values
ApplyAnalyze ==
    /\ fn_out = NoOut
    /\ fn_out' = [NoOut EXCEPT !.analysis =
                     {analyze(FnSelf, fn_in.current_stock, fn_in.daily_burn_rate,
                              fn_in.in_transit_qty, fn_in.forecast_confidence)}]
    /\ UNCHANGED <<db_vars, ext_vars, forecasts, recommendations, fn_in, sales_data, horizon, fc>>

\* determine_action_category(runway_days, in_transit_qty, recommended_qty, daily_burn_rate)
ApplyActionCategory ==
    \E runway_days \in RunwayArgs, in_transit_qty \in CategoryInTransitArgs,
       recommended_qty \in RecommendedArgs :
      /\ fn_out = NoOut
      /\ fn_out' = [NoOut EXCEPT !.category =
                       {[runway_days |-> runway_days,
                         in_transit_qty |-> in_transit_qty,
                         recommended_qty |-> recommended_qty,
                         action_category |->
                             determine_action_category(FnSelf, runway_days, in_transit_qty,
                                                       recommended_qty, fn_in.daily_burn_rate)]}]
      /\ UNCHANGED <<db_vars, ext_vars, forecasts, recommendations, fn_in, sales_data, horizon, fc>>

\* calculate_runway_days(current_stock, daily_burn_rate), then
\* calculate_stockout_date(runway_days), as analyze calls them
ApplyRunwayDays ==
    \E current_stock \in RunwayStockArgs, daily_burn_rate \in RunwayBurnArgs :
      LET runway_days == calculate_runway_days(current_stock, daily_burn_rate)
      IN /\ fn_out = NoOut
         /\ fn_out' = [NoOut EXCEPT !.runway =
                          {[current_stock |-> current_stock,
                            daily_burn_rate |-> daily_burn_rate,
                            runway_days |-> runway_days,
                            stockout_date |-> calculate_stockout_date(FnSelf, runway_days)]}]
         /\ UNCHANGED <<db_vars, ext_vars, forecasts, recommendations, fn_in, sales_data,
                        horizon, fc>>

NextFn ==
    \/ ApplyRecommendedQuantity \/ ApplyPriorityScore \/ ApplyAnalyze
    \/ ApplyActionCategory \/ ApplyRunwayDays

SpecFn == InitFn /\ [][NextFn]_vars

----------------------------------------------------------------------------
(* Statistics over a list of quantities, exact on integers *)

RECURSIVE SeqSum(_)
\* sum(q), by halves
SeqSum(q) ==
    IF Len(q) = 0 THEN 0
    ELSE IF Len(q) = 1 THEN q[1]
    ELSE SeqSum(SubSeq(q, 1, Len(q) \div 2)) + SeqSum(SubSeq(q, Len(q) \div 2 + 1, Len(q)))

\* sum(x * x for x in q)
SeqSumSq(q) == SeqSum([i \in 1..Len(q) |-> q[i] * q[i]])

\* the last k entries of q (all of q when it is shorter): q[-k:]
LastN(q, k) == IF Len(q) <= k THEN q ELSE SubSeq(q, Len(q) - k + 1, Len(q))

RECURSIVE SqrtBetween(_, _, _)
\* the largest k in lo..hi with k * k <= n
SqrtBetween(n, lo, hi) ==
    IF lo >= hi THEN lo
    ELSE LET mid == (lo + hi + 1) \div 2
         IN IF mid * mid <= n THEN SqrtBetween(n, mid, hi) ELSE SqrtBetween(n, lo, mid - 1)

\* floor of the square root
ISqrt(n) == SqrtBetween(n, 0, Min(n, 46340))

\* n * sum(x^2) - sum(x)^2, which is n^2 times the population variance
Spread(q) == Len(q) * SeqSumSq(q) - SeqSum(q) * SeqSum(q)

\* floor(10000 * a / b), computed without leaving 32 bits
Scaled(a, b) == 10000 * (a \div b) + (10000 * (a % b)) \div b

\* np.std(q) in hundredths, rounded down (population standard deviation)
NpStd100(q) == ISqrt(Scaled(Spread(q), Len(q) * Len(q)))

\* round(n / d) of Python for d > 0: to the nearest integer, ties to the even one
RoundHalfEven(n, d) ==
    LET f == n \div d
        r == n - f * d
    IN IF 2 * r < d THEN f
       ELSE IF 2 * r > d THEN f + 1
       ELSE IF f % 2 = 0 THEN f ELSE f + 1

----------------------------------------------------------------------------
(* forecasting/simple_forecast.py: SimpleForecaster *)

window_7 == 7
window_14 == 14

\* datetime.now().date(); the histories end on this day
today == 31

\* calculate_moving_averages: the two means as quotients sum / count
calculate_moving_averages(data) ==
    IF Len(data) = 0
    THEN [avg_7 |-> [n |-> 0, d |-> 1], avg_14 |-> [n |-> 0, d |-> 1]]
    ELSE [avg_7 |-> [n |-> SeqSum(LastN(data, window_7)), d |-> Len(LastN(data, window_7))],
          avg_14 |-> [n |-> SeqSum(LastN(data, window_14)), d |-> Len(LastN(data, window_14))]]

\* calculate_volatility.  The score is min(1, cv / 2) with cv = std / mean, and
\* cv^2 = Spread / sum^2; the result is the quotient n / d = (2 * score)^2,
\* the sales quantities being non-negative
calculate_volatility(data) ==
    IF Len(data) < 2 THEN [n |-> 0, d |-> 1]
    ELSE IF SeqSum(data) = 0 THEN [n |-> 0, d |-> 1]
    ELSE IF Spread(data) >= 4 * SeqSum(data) * SeqSum(data) THEN [n |-> 4, d |-> 1]
    ELSE [n |-> Spread(data), d |-> SeqSum(data) * SeqSum(data)]

\* calculate_weighted_forecast: weight_7 * avg_7 + weight_14 * avg_14 as a
\* quotient; volatility < 0.3 is (2 * volatility)^2 < 0.36 = 9 / 25, and
\* volatility < 0.7 is (2 * volatility)^2 < 1.96 = 49 / 25
calculate_weighted_forecast(avg_7, avg_14, volatility) ==
    LET weight_7 == IF 25 * volatility.n < 9 * volatility.d THEN 6
                    ELSE IF 25 * volatility.n < 49 * volatility.d THEN 5
                    ELSE 4
        weight_14 == 10 - weight_7
    IN [n |-> weight_7 * avg_7.n * avg_14.d + weight_14 * avg_14.n * avg_7.d,
        d |-> 10 * avg_7.d * avg_14.d]

\* calculate_confidence_level that never answers LOW
calculate_confidence_level_nolow(data) ==
    IF Len(data) >= 30 THEN "HIGH" ELSE "MEDIUM"

\* calculate_confidence_level
calculate_confidence_level(data) ==
    IF Len(data) >= 30 THEN "HIGH" ELSE IF Len(data) >= 14 THEN "MEDIUM" ELSE "LOW"

\* get_product_sales_history(product_id, days): the records dated from
\* today - days on, the store holding one record per day up to today
get_product_sales_history(history, days) == LastN(history, days + 1)

\* generate_forecast_for_product(product_id, forecast_days), history being the
\* product's stored daily quantities
generate_forecast_for_product_short(history, forecast_days) ==
    LET data == get_product_sales_history(history, 60)
        weighted_avg == IF Len(data) = 0 THEN [n |-> 0, d |-> 1]
                        ELSE calculate_weighted_forecast(
                                 calculate_moving_averages(data).avg_7,
                                 calculate_moving_averages(data).avg_14,
                                 calculate_volatility(data))
        forecast_value == Max(0, RoundHalfEven(weighted_avg.n, weighted_avg.d))
        std_dev == IF Len(data) > 1 THEN NpStd100(data) ELSE 0
        confidence_lower == Max(0, 100 * forecast_value - (196 * std_dev) \div 100)
        confidence_upper == 100 * forecast_value + (196 * std_dev) \div 100
    IN [i \in 1..(forecast_days - 1) |->
          [forecast_date |-> today + i,
           predicted_quantity |-> forecast_value,
           confidence_lower |-> RoundHalfEven(confidence_lower, 100),
           confidence_upper |-> RoundHalfEven(confidence_upper, 100),
           confidence_level |-> calculate_confidence_level(data),
           calculation_method |-> "MOVING_AVERAGE"]]

\* generate_forecast_for_product(product_id, forecast_days), history being the
\* product's stored daily quantities
generate_forecast_for_product(history, forecast_days) ==
    LET data == get_product_sales_history(history, 60)
        weighted_avg == IF Len(data) = 0 THEN [n |-> 0, d |-> 1]
                        ELSE calculate_weighted_forecast(
                                 calculate_moving_averages(data).avg_7,
                                 calculate_moving_averages(data).avg_14,
                                 calculate_volatility(data))
        forecast_value == Max(0, RoundHalfEven(weighted_avg.n, weighted_avg.d))
        std_dev == IF Len(data) > 1 THEN NpStd100(data) ELSE 0
        confidence_lower == Max(0, 100 * forecast_value - (196 * std_dev) \div 100)
        confidence_upper == 100 * forecast_value + (196 * std_dev) \div 100
    IN [i \in 1..forecast_days |->
          [forecast_date |-> today + i,
           predicted_quantity |-> forecast_value,
           confidence_lower |-> RoundHalfEven(confidence_lower, 100),
           confidence_upper |-> RoundHalfEven(confidence_upper, 100),
           confidence_level |-> calculate_confidence_level(data),
           calculation_method |-> "MOVING_AVERAGE"]]

\* update_or_create that always creates
forecast_update_or_create_insert(table, row) == table \cup {row}

\* Forecast.objects.update_or_create(product, forecast_date, defaults)
forecast_update_or_create(table, row) ==
    IF \E r \in table : r.forecast_date = row.forecast_date
    THEN {IF r.forecast_date = row.forecast_date THEN row ELSE r : r \in table}
    ELSE table \cup {row}

\* the Forecast row save_forecasts_to_db writes for one forecast dictionary
simple_forecast_row(forecast_data) ==
    [forecast_date |-> forecast_data.forecast_date,
     predicted_quantity |-> forecast_data.predicted_quantity,
     confidence_lower |-> 100 * forecast_data.confidence_lower,
     confidence_upper |-> 100 * forecast_data.confidence_upper,
     confidence_score |-> IF forecast_data.confidence_level = "HIGH" THEN 8000
                          ELSE IF forecast_data.confidence_level = "MEDIUM" THEN 6000
                          ELSE 4000,
     model_version |-> "simple_ma_v1.0"]

RECURSIVE save_forecasts_to_db(_, _)
\* save_forecasts_to_db: one update_or_create per forecast dictionary, in order
save_forecasts_to_db(table, rows) ==
    IF rows = <<>> THEN table
    ELSE save_forecasts_to_db(forecast_update_or_create(table, simple_forecast_row(Head(rows))),
                              Tail(rows))

\* generate_simple_forecast_for_product(product_id, forecast_days)
generate_simple_forecast_for_product ==
    LET rows == generate_forecast_for_product(sales_data, horizon)
    IN /\ forecasts' = save_forecasts_to_db(forecasts, rows)
       /\ fc' = [pc |-> "simple", status |-> "success", rows |-> rows]
       /\ UNCHANGED <<db_vars, ext_vars, recommendations, fn_in, fn_out, sales_data, horizon>>

----------------------------------------------------------------------------
(* forecasting/ml_engine.py: DemandForecaster *)

\* A sales DataFrame is a record: `filled' leading days of quantity 0 (the days
\* prepare_sales_history fills in), then the days of `quantity', oldest first.
DfLen(df) == df.filled + Len(df.quantity)

\* engineer_features, as far as the rows it keeps: of the eight feature columns
\* the first row has five nulls (both lags, both rolling statistics, the growth
\* rate) and is dropped, every later row has at most four and is kept
engineer_features(df) ==
    IF DfLen(df) = 0 THEN df
    ELSE IF df.filled > 0 THEN [df EXCEPT !.filled = @ - 1]
    ELSE [df EXCEPT !.quantity = Tail(@)]

\* train: raises unless at least 10 rows are left to fit on
train_raises(sales_history) == DfLen(engineer_features(sales_history)) < 10

\* what self.model.predict(last_row)[0] can do: return a number (here already
\* truncated by int()), or raise
ModelOutcomes == {[ok |-> TRUE, value |-> -1], [ok |-> TRUE, value |-> 3],
                  [ok |-> FALSE, value |-> 0]}

\* int(df['quantity'].mean())
mean_quantity(df) == TruncDiv(SeqSum(df.quantity), DfLen(df))

\* df['quantity'].std() in hundredths, rounded down (sample standard deviation)
quantity_std(df) ==
    ISqrt(Scaled(DfLen(df) * SeqSumSq(df.quantity)
                     - SeqSum(df.quantity) * SeqSum(df.quantity),
                 DfLen(df) * (DfLen(df) - 1)))

\* predict_row with a failed step forecast as 0
predict_row_zero_fallback(df, day_ahead, outcome, last_date, std_dev_before) ==
    LET prediction ==
            IF DfLen(df) > 0
            THEN IF outcome.ok THEN Max(0, outcome.value) ELSE 0
            ELSE 0
        std_dev == IF DfLen(df) > 1 THEN {quantity_std(df)} ELSE std_dev_before
        s == CHOOSE x \in std_dev : TRUE
        confidence_lower == IF DfLen(df) > 1
                            THEN Max(0, 100 * prediction - (196 * s) \div 100)
                            ELSE 100 * prediction
        confidence_upper == IF DfLen(df) > 1 THEN 100 * prediction + (196 * s) \div 100
                            ELSE 100 * prediction
    IN [row |-> [forecast_date |-> last_date + day_ahead,
                 predicted_quantity |-> prediction,
                 confidence_lower |-> confidence_lower,
                 confidence_upper |-> confidence_upper,
                 confidence_score |->
                     Min(9500, 10000 - (IF std_dev # {} THEN (s * 100) \div (prediction + 1)
                                        ELSE 5000))],
        std_dev |-> std_dev,
        df |-> IF DfLen(df) > 0
               THEN engineer_features([df EXCEPT !.quantity = Append(@, prediction)])
               ELSE df]

\* one iteration of the loop of predict: the forecast dictionary of day_ahead,
\* bounds and score in hundredths, and the locals carried to the next iteration;
\* std_dev is {} while no iteration has assigned it
predict_row(df, day_ahead, outcome, last_date, std_dev_before) ==
    LET prediction ==
            IF DfLen(df) > 0
            THEN IF outcome.ok THEN Max(0, outcome.value) ELSE Max(0, mean_quantity(df))
            ELSE 0
        std_dev == IF DfLen(df) > 1 THEN {quantity_std(df)} ELSE std_dev_before
        s == CHOOSE x \in std_dev : TRUE
        confidence_lower == IF DfLen(df) > 1
                            THEN Max(0, 100 * prediction - (196 * s) \div 100)
                            ELSE 100 * prediction
        confidence_upper == IF DfLen(df) > 1 THEN 100 * prediction + (196 * s) \div 100
                            ELSE 100 * prediction
    IN [row |-> [forecast_date |-> last_date + day_ahead,
                 predicted_quantity |-> prediction,
                 confidence_lower |-> confidence_lower,
                 confidence_upper |-> confidence_upper,
                 confidence_score |->
                     Min(9500, 10000 - (IF std_dev # {} THEN (s * 100) \div (prediction + 1)
                                        ELSE 5000))],
        std_dev |-> std_dev,
        df |-> IF DfLen(df) > 0
               THEN engineer_features([df EXCEPT !.quantity = Append(@, prediction)])
               ELSE df]

RECURSIVE predict_loop(_, _, _, _, _, _)
\* the loop of predict from day_ahead on, outcomes[i] being what the model does on day i
predict_loop(df, day_ahead, forecast_days, outcomes, last_date, std_dev) ==
    IF day_ahead > forecast_days THEN <<>>
    ELSE LET step == predict_row(df, day_ahead, outcomes[day_ahead], last_date, std_dev)
         IN <<step.row>> \o predict_loop(step.df, day_ahead + 1, forecast_days, outcomes,
                                         last_date, step.std_dev)

\* predict raises when no row is left after feature engineering
predict_raises(sales_history) == DfLen(engineer_features(sales_history)) = 0

\* predict(sales_history, forecast_days) of a trained forecaster; the history
\* ends today
predict(sales_history, forecast_days, outcomes) ==
    predict_loop(engineer_features(sales_history), 1, forecast_days, outcomes, today, {})

\* DemandForecaster(horizon): a forecaster with no model yet
DemandForecaster_init == [model |-> "None", model_version |-> "v1.0"]

\* self.train(sales_history): whether it raised, and the forecaster afterwards;
\* self.model is assigned only past the checks that raise
DemandForecaster_train(self, sales_history) ==
    IF train_raises(sales_history) THEN [raised |-> TRUE, self |-> self]
    ELSE [raised |-> FALSE, self |-> [self EXCEPT !.model = "fitted"]]

\* predict without the check of self.model
DemandForecaster_predict_unchecked(self, sales_history, forecast_days, outcomes) ==
    IF predict_raises(sales_history) THEN [raised |-> TRUE, rows |-> <<>>]
    ELSE [raised |-> FALSE, rows |-> predict(sales_history, forecast_days, outcomes)]

\* self.predict(sales_history, forecast_days): whether it raised, and the rows
\* it returned
DemandForecaster_predict(self, sales_history, forecast_days, outcomes) ==
    IF self.model = "None" \/ predict_raises(sales_history)
    THEN [raised |-> TRUE, rows |-> <<>>]
    ELSE [raised |-> FALSE, rows |-> predict(sales_history, forecast_days, outcomes)]

----------------------------------------------------------------------------
(* forecasting/ml_engine.py: FeatureEngineer, row by row *)

\* the columns engineer_features counts as features: all but quantity, date,
\* id, product_id and company_id
feature_cols ==
    {"quantity_lag_1", "quantity_lag_7", "quantity_rolling_mean_7",
     "quantity_rolling_std_7", "day_of_week", "is_weekend", "days_since_start",
     "growth_rate_3d"}

\* what the feature column col holds in row i of the frame with quantity
\* column q, before any filling: "nan", "inf" or a number ("num")
\*   shift(lag) is null in the first lag rows, rolling(7) in the first six,
\*   pct_change(3) in the first three and where it is 0 / 0, and is infinite
\*   where it is x / 0
feature_value(q, i, col) ==
    IF col = "quantity_lag_1" THEN (IF i <= 1 THEN "nan" ELSE "num")
    ELSE IF col = "quantity_lag_7" THEN (IF i <= 7 THEN "nan" ELSE "num")
    ELSE IF col \in {"quantity_rolling_mean_7", "quantity_rolling_std_7"}
    THEN (IF i < 7 THEN "nan" ELSE "num")
    ELSE IF col = "growth_rate_3d"
    THEN (IF i <= 3 THEN "nan"
          ELSE IF q[i - 3] # 0 THEN "num"
          ELSE IF q[i] = 0 THEN "nan" ELSE "inf")
    ELSE "num"

\* df[feature_cols].isnull().sum(axis=1) of row i
feature_null_count(q, i) ==
    Cardinality({col \in feature_cols : feature_value(q, i, col) = "nan"})

\* df[df['feature_null_count'] <= threshold]: row i is kept
row_kept(q, i) == feature_null_count(q, i) <= Cardinality(feature_cols) \div 2

\* the value of column col after replace([inf, -inf], nan) and the fillna calls
filled_value(col, value) ==
    LET v == IF value = "inf" THEN "nan" ELSE value
    IN IF v # "nan" THEN v
       ELSE IF col \in {"quantity_lag_1", "quantity_lag_7"} THEN "num"
       ELSE IF col \in {"quantity_rolling_mean_7", "quantity_rolling_std_7"} THEN "num"
       ELSE IF col = "growth_rate_3d" THEN "num"
       ELSE IF col \in {"day_of_week", "is_weekend", "days_since_start"} THEN "num"
       ELSE v

\* engineer_features(df), told for every row of df: its null count, whether it
\* is in the result, and its feature columns as they are returned
engineer_features_rows(q) ==
    {[index |-> i,
      feature_null_count |-> feature_null_count(q, i),
      kept |-> row_kept(q, i),
      features |-> [col \in feature_cols |-> filled_value(col, feature_value(q, i, col))]] :
         i \in 1..Len(q)}

----------------------------------------------------------------------------
(* SpecFeatures: engineer_features applied to a drawn frame *)

\* the values of the quantity column
QuantityLevels == {0, 2}

InitFeatures ==
    /\ fn_in \in [op : {"frame"},
                  quantity : UNION {[1..n -> QuantityLevels] : n \in 0..MaxRows}]
    /\ fn_out = {}
    /\ InitIdleStore
    /\ InitIdleForecast
    /\ InitIdleExt

ApplyEngineerFeatures ==
    /\ fn_out = {}
    /\ fn_in.quantity # <<>>
    /\ fn_out' = engineer_features_rows(fn_in.quantity)
    /\ UNCHANGED <<db_vars, ext_vars, forecasts, recommendations, fn_in, sales_data, horizon, fc>>

NextFeatures == ApplyEngineerFeatures

SpecFeatures == InitFeatures /\ [][NextFeatures]_vars

----------------------------------------------------------------------------
(* forecasting/tasks.py *)

\* the Forecast row generate_product_forecast writes for one row of forecasts_df
forecast_row(row, model_version) ==
    [forecast_date |-> row.forecast_date,
     predicted_quantity |-> row.predicted_quantity,
     confidence_lower |-> row.confidence_lower,
     confidence_upper |-> row.confidence_upper,
     confidence_score |-> row.confidence_score,
     model_version |-> model_version]

\* DecimalField(max_digits=5, decimal_places=2): a score of 1000.00 or more in
\* absolute value cannot be written, the save raises
score_overflows(row) == row.confidence_score >= 100000 \/ row.confidence_score <= -100000

RECURSIVE save_forecast_rows(_, _)
\* the save loop of generate_product_forecast; it stops at the row that raises
\* and the rows written before it stay
save_forecast_rows(table, rows) ==
    IF rows = <<>> THEN [table |-> table, raised |-> FALSE]
    ELSE IF score_overflows(Head(rows)) THEN [table |-> table, raised |-> TRUE]
    ELSE save_forecast_rows(forecast_update_or_create(table, forecast_row(Head(rows), "v1.0")),
                            Tail(rows))

\* the days from today - 180 to today
history_days == 181

\* prepare_sales_history(product): nothing when the product has no aggregate in
\* the last 181 days, else one row per day of them, the days without an
\* aggregate filled with 0; history holds the aggregates of the latest days
prepare_sales_history(history) ==
    IF history = <<>> THEN [filled |-> 0, quantity |-> <<>>]
    ELSE [filled |-> history_days - Len(LastN(history, history_days)),
          quantity |-> LastN(history, history_days)]

\* generate_product_forecast(product_id); the forecaster is asked for horizon
\* days, where the task asks for 30
generate_product_forecast ==
    /\ UNCHANGED <<db_vars, ext_vars, recommendations, fn_in, fn_out, sales_data, horizon>>
    /\ IF DfLen(prepare_sales_history(sales_data)) < 30
       THEN /\ fc' = [pc |-> "regression", status |-> "skipped", rows |-> <<>>]
            /\ UNCHANGED forecasts
       ELSE IF train_raises(prepare_sales_history(sales_data))
               \/ predict_raises(prepare_sales_history(sales_data))
       THEN /\ fc' = [pc |-> "regression", status |-> "error", rows |-> <<>>]
            /\ UNCHANGED forecasts
       ELSE \E outcomes \in [1..horizon -> ModelOutcomes] :
              LET forecasts_df == predict(prepare_sales_history(sales_data), horizon, outcomes)
                  saved == save_forecast_rows(forecasts, forecasts_df)
              IN /\ forecasts' = saved.table
                 /\ fc' = [pc |-> "regression",
                           status |-> IF saved.raised THEN "error" ELSE "success",
                           rows |-> forecasts_df]

----------------------------------------------------------------------------
(* SpecForecast: both forecasters run, and re-run, on a drawn sales history *)

\* k days of v units
Repeat(v, k) == [i \in 1..k |-> v]

\* daily quantities of a drawn history
SaleLevels == {0, 1, 20}

\* the product's daily quantities up to today, oldest first: a run of equal
\* days, then up to MaxTail free days
SalesHistories ==
    {Repeat(v, k) \o t : v \in SaleLevels, k \in {0, 13, 29},
                         t \in UNION {[1..m -> SaleLevels] : m \in 0..MaxTail}}

InitForecast ==
    /\ sales_data \in SalesHistories
    /\ horizon \in 0..MaxHorizon
    /\ fc = NoRun
    /\ InitIdleStore
    /\ InitIdleFn
    /\ InitIdleExt

NextForecast == generate_simple_forecast_for_product \/ generate_product_forecast

SpecForecast == InitForecast /\ [][NextForecast]_vars

----------------------------------------------------------------------------
(* SpecForecaster: train and predict called on one DemandForecaster *)

\* the frames a call is given: no filled days, the drawn quantities
SalesFrames ==
    {[filled |-> 0, quantity |-> Repeat(v, k) \o t] :
         v \in SaleLevels, k \in {0, 1, 9, 10, 11},
         t \in UNION {[1..m -> SaleLevels] : m \in 0..MaxTail}}

\* no call has been made
NoCall == [call |-> "none", sales_history |-> [filled |-> 0, quantity |-> <<>>],
           forecast_days |-> 0, outcomes |-> <<>>, raised |-> FALSE, rows |-> <<>>]

\* fn_in is the forecaster, what has been called on it so far (trained: a
\* train call returned; failed: a train call raised) and the arguments the
\* run calls it with; fn_out is the last call
InitForecaster ==
    /\ fn_in \in [op : {"forecaster"}, self : {DemandForecaster_init},
                  trained : {FALSE}, failed : {FALSE},
                  sales_history : SalesFrames, forecast_days : 0..MaxHorizon]
    /\ fn_out = NoCall
    /\ InitIdleStore
    /\ InitIdleForecast
    /\ InitIdleExt

CallTrain ==
    /\ LET r == DemandForecaster_train(fn_in.self, fn_in.sales_history)
       IN /\ fn_in' = [fn_in EXCEPT !.self = r.self,
                                    !.trained = @ \/ ~r.raised,
                                    !.failed = @ \/ r.raised]
          /\ fn_out' = [NoCall EXCEPT !.call = "train",
                                      !.sales_history = fn_in.sales_history,
                                      !.raised = r.raised]
    /\ UNCHANGED <<db_vars, ext_vars, forecasts, recommendations, sales_data, horizon, fc>>

CallPredict ==
    /\ \E outcomes \in [1..fn_in.forecast_days -> ModelOutcomes] :
         LET r == DemandForecaster_predict(fn_in.self, fn_in.sales_history,
                                           fn_in.forecast_days, outcomes)
         IN fn_out' = [call |-> "predict", sales_history |-> fn_in.sales_history,
                       forecast_days |-> fn_in.forecast_days, outcomes |-> outcomes,
                       raised |-> r.raised, rows |-> r.rows]
    /\ UNCHANGED <<db_vars, ext_vars, forecasts, recommendations, fn_in, sales_data,
                   horizon, fc>>

NextForecaster == CallTrain \/ CallPredict

SpecForecaster == InitForecaster /\ [][NextForecaster]_vars

----------------------------------------------------------------------------
(* SpecBatch: procurement/tasks.py analyze_company_procurement and           *)
(* forecasting/tasks.py generate_company_forecasts over one company          *)

\* What can happen to an active product of the company when its turn comes:
\*   ok              it is analysed / forecast and the result is saved
\*   no_history      it has no sales aggregate (the analysis still succeeds)
\*   missing         it was deleted after the product list was read
\*   analysis_error  the analyzer, the model or the save raises
\*   db_error        reading the product or its sales history raises
ProductKinds == {"ok", "no_history", "missing", "analysis_error", "db_error"}

\* the company's active products; category is the action category the
\* analysis of the product arrives at
Products ==
    {[kind |-> "ok", category |-> c] : c \in ACTION_CATEGORIES}
        \cup {[kind |-> k, category |-> "NORMAL"] : k \in ProductKinds \ {"ok"}}

\* analyze_product_procurement(product.id, today) as the batch sees it: the
\* dictionary returned, or an exception that leaves the function
analyze_product_procurement_result(product) ==
    IF product.kind = "db_error" THEN [raised |-> TRUE, status |-> "none"]
    ELSE IF product.kind = "missing" THEN [raised |-> FALSE, status |-> "error"]
    ELSE IF product.kind = "analysis_error" THEN [raised |-> FALSE, status |-> "error"]
    ELSE [raised |-> FALSE, status |-> "success"]

\* generate_product_forecast(product.id) as the batch sees it
generate_product_forecast_result(product) ==
    IF product.kind = "db_error" THEN [raised |-> TRUE, status |-> "none"]
    ELSE IF product.kind = "missing" THEN [raised |-> FALSE, status |-> "error"]
    ELSE IF product.kind = "no_history" THEN [raised |-> FALSE, status |-> "skipped"]
    ELSE IF product.kind = "analysis_error" THEN [raised |-> FALSE, status |-> "error"]
    ELSE [raised |-> FALSE, status |-> "success"]

\* the counters of analyze_company_procurement before the loop
NoProcurementCounts ==
    [success |-> 0, failed |-> 0,
     categories |-> [order_today |-> 0, already_ordered |-> 0,
                     attention_required |-> 0, normal |-> 0]]

\* the category counter a successful product raises
count_category(counts, category) ==
    IF category = "ORDER_TODAY"
    THEN [counts EXCEPT !.success = @ + 1, !.categories.order_today = @ + 1]
    ELSE IF category = "ALREADY_ORDERED"
    THEN [counts EXCEPT !.success = @ + 1, !.categories.already_ordered = @ + 1]
    ELSE IF category = "ATTENTION_REQUIRED"
    THEN [counts EXCEPT !.success = @ + 1, !.categories.attention_required = @ + 1]
    ELSE [counts EXCEPT !.success = @ + 1, !.categories.normal = @ + 1]

RECURSIVE analyze_company_procurement_loop_uncounted(_, _)
\* the loop whose except branch only logs
analyze_company_procurement_loop_uncounted(products, counts) ==
    IF products = <<>> THEN counts
    ELSE LET result == analyze_product_procurement_result(Head(products))
         IN analyze_company_procurement_loop_uncounted(Tail(products),
                IF result.raised THEN counts
                ELSE IF result.status = "success"
                THEN count_category(counts, Head(products).category)
                ELSE [counts EXCEPT !.failed = @ + 1])

RECURSIVE analyze_company_procurement_loop(_, _)
\* the for loop of analyze_company_procurement over the products left
analyze_company_procurement_loop(products, counts) ==
    IF products = <<>> THEN counts
    ELSE LET result == analyze_product_procurement_result(Head(products))
         IN analyze_company_procurement_loop(Tail(products),
                IF result.raised THEN [counts EXCEPT !.failed = @ + 1]
                ELSE IF result.status = "success"
                THEN count_category(counts, Head(products).category)
                ELSE [counts EXCEPT !.failed = @ + 1])

\* analyze_company_procurement(company_id) for the existing company
analyze_company_procurement ==
    LET counts == analyze_company_procurement_loop(batch.products, NoProcurementCounts)
    IN /\ batch' = [batch EXCEPT
                      !.task = "analyze_company_procurement",
                      !.result = [status |-> "complete",
                                  total_products |-> Len(batch.products),
                                  success |-> counts.success,
                                  failed |-> counts.failed,
                                  categories |-> counts.categories]]
       /\ UNCHANGED <<db_vars, forecasts, recommendations, fn_in, fn_out,
                      sales_data, horizon, fc, orders, response>>

RECURSIVE generate_company_forecasts_loop(_, _)
\* the for loop of generate_company_forecasts over the products left
generate_company_forecasts_loop(products, counts) ==
    IF products = <<>> THEN counts
    ELSE LET result == generate_product_forecast_result(Head(products))
         IN generate_company_forecasts_loop(Tail(products),
                IF result.raised THEN [counts EXCEPT !.failed = @ + 1]
                ELSE IF result.status = "success" THEN [counts EXCEPT !.success = @ + 1]
                ELSE IF result.status = "skipped" THEN [counts EXCEPT !.skipped = @ + 1]
                ELSE [counts EXCEPT !.failed = @ + 1])

\* generate_company_forecasts(company_id) for the existing company
generate_company_forecasts ==
    LET counts == generate_company_forecasts_loop(batch.products,
                      [success |-> 0, failed |-> 0, skipped |-> 0])
    IN /\ batch' = [batch EXCEPT
                      !.task = "generate_company_forecasts",
                      !.result = [status |-> "complete",
                                  total_products |-> Len(batch.products),
                                  success |-> counts.success,
                                  failed |-> counts.failed,
                                  skipped |-> counts.skipped]]
       /\ UNCHANGED <<db_vars, forecasts, recommendations, fn_in, fn_out,
                      sales_data, horizon, fc, orders, response>>

\* the company has up to MaxProducts active products
InitBatch ==
    /\ batch \in {[NoBatch EXCEPT !.products = ps] :
                     ps \in UNION {[1..n -> Products] : n \in 0..MaxProducts}}
    /\ orders = {} /\ response = NoResponse
    /\ InitIdleStore
    /\ InitIdleFn
    /\ InitIdleForecast

NextBatch == analyze_company_procurement \/ generate_company_forecasts

SpecBatch == InitBatch /\ [][NextBatch]_vars

----------------------------------------------------------------------------
(* procurement/views.py: purchase orders *)

\* the companies, and the company of request.user
Companies == {"A", "B"}

\* the products, one per company
ProductIds == {"pa", "pb"}
ProductCompany == [p \in ProductIds |-> IF p = "pa" THEN "A" ELSE "B"]

\* primary keys a purchase order can get
OrderIds == {1, 2}

\* the quantity_<product_id> values a form posts
OrderQuantities == {0, 1}

\* what the latest ProcurementRecommendation of a product recommends ({} when
\* the product has none)
LatestRecommendations == {{}, {1}}

\* request.method
Methods == {"GET", "POST"}

\* the status values a request can post
PostedStatuses == STATUS_CHOICES \cup {"SHIPPED"}

\* f"PO-{today}-{po_count + 1:03d}", po_count being the company's orders of today
next_po_number(table, company, day) ==
    <<day, Cardinality({o \in table : o.company = company /\ o.order_date = day}) + 1>>

\* PurchaseOrder.objects.create raises on a po_number that exists (unique=True)
po_number_taken(table, po_number) == \E o \in table : o.po_number = po_number

\* the primary key of the next purchase order
next_order_id(table) == CHOOSE id \in OrderIds :
    /\ \A o \in table : o.id # id
    /\ \A other \in OrderIds : (\A o \in table : o.id # other) => id <= other

RECURSIVE add_items(_, _, _, _)
\* the item loop of submit_order from the ids left: the items created, and
\* whether Product.objects.get (product of another company) or
\* PurchaseOrderItem.objects.create (product already in the order) raised
add_items(items, product_ids, quantity, company) ==
    IF product_ids = <<>> THEN [items |-> items, raised |-> FALSE]
    ELSE LET product_id == Head(product_ids)
         IN IF quantity[product_id] > 0
            THEN IF ProductCompany[product_id] # company
                 THEN [items |-> items, raised |-> TRUE]
                 ELSE IF \E i \in items : i.product = product_id
                 THEN [items |-> items, raised |-> TRUE]
                 ELSE add_items(items \cup {[product |-> product_id,
                                             quantity_ordered |-> quantity[product_id],
                                             quantity_received |-> 0]},
                                Tail(product_ids), quantity, company)
            ELSE add_items(items, Tail(product_ids), quantity, company)

\* submit_order (POST) by a user of company user; an exception leaves the view
\* as a 500 response and the rows written before it stay
submit_order(user, product_ids, quantity) ==
    LET po_number == next_po_number(orders, user, today)
        added == add_items({}, product_ids, quantity, user)
    IN /\ \E id \in OrderIds : \A o \in orders : o.id # id
       /\ IF po_number_taken(orders, po_number)
          THEN /\ orders' = orders
               /\ response' = [view |-> "submit_order", user |-> user, request |-> <<>>,
                               code |-> 500, shown |-> {}]
          ELSE /\ orders' = orders \cup
                     {[id |-> next_order_id(orders), company |-> user,
                       po_number |-> po_number, order_date |-> today,
                       status |-> IF added.raised THEN "DRAFT" ELSE "SUBMITTED",
                       actual_delivery |-> {}, items |-> added.items]}
               /\ response' = [view |-> "submit_order", user |-> user,
                               code |-> IF added.raised THEN 500 ELSE 302, shown |-> {}]
       /\ UNCHANGED <<db_vars, batch, forecasts, recommendations, fn_in, fn_out,
                      sales_data, horizon, fc>>

\* quick_order (POST) of product_id by a user of company user
quick_order(user, product_id, recommendation) ==
    LET po_number == next_po_number(orders, user, today)
    IN /\ \E id \in OrderIds : \A o \in orders : o.id # id
       /\ IF ProductCompany[product_id] # user \/ recommendation = {}
          THEN /\ orders' = orders
               /\ response' = [view |-> "quick_order", user |-> user, request |-> <<>>,
                               code |-> 404, shown |-> {}]
          ELSE IF po_number_taken(orders, po_number)
          THEN /\ orders' = orders
               /\ response' = [view |-> "quick_order", user |-> user, request |-> <<>>,
                               code |-> 500, shown |-> {}]
          ELSE /\ orders' = orders \cup
                     {[id |-> next_order_id(orders), company |-> user,
                       po_number |-> po_number, order_date |-> today,
                       status |-> "SUBMITTED", actual_delivery |-> {},
                       items |-> {[product |-> product_id,
                                   quantity_ordered |-> CHOOSE q \in recommendation : TRUE,
                                   quantity_received |-> 0]}]}
               /\ response' = [view |-> "quick_order", user |-> user, request |-> <<>>,
                               code |-> 200, shown |-> {user}]
       /\ UNCHANGED <<db_vars, batch, forecasts, recommendations, fn_in, fn_out,
                      sales_data, horizon, fc>>

\* update_order_status that stores whatever status is posted
update_order_status_unchecked(user, method, po_id, new_status) ==
    /\ IF method # "POST"
       THEN /\ orders' = orders
            /\ response' = [view |-> "update_order_status", user |-> user,
                            request |-> [method |-> method, po_id |-> po_id,
                                         new_status |-> new_status],
                            code |-> 400, shown |-> {}]
       ELSE IF ~ \E o \in orders : o.id = po_id /\ o.company = user
       THEN /\ orders' = orders
            /\ response' = [view |-> "update_order_status", user |-> user,
                            request |-> [method |-> method, po_id |-> po_id,
                                         new_status |-> new_status],
                            code |-> 404, shown |-> {}]
       ELSE /\ orders' = {IF o.id = po_id
                          THEN [o EXCEPT !.status = new_status,
                                         !.actual_delivery =
                                             IF new_status = "DELIVERED" THEN {today} ELSE @]
                          ELSE o : o \in orders}
            /\ response' = [view |-> "update_order_status", user |-> user,
                            request |-> [method |-> method, po_id |-> po_id,
                                         new_status |-> new_status],
                            code |-> 200, shown |-> {user}]
    /\ UNCHANGED <<db_vars, batch, forecasts, recommendations, fn_in, fn_out,
                   sales_data, horizon, fc>>

\* update_order_status of order po_id by a user of company user
update_order_status(user, method, po_id, new_status) ==
    /\ IF method # "POST"
       THEN /\ orders' = orders
            /\ response' = [view |-> "update_order_status", user |-> user,
                            request |-> [method |-> method, po_id |-> po_id,
                                         new_status |-> new_status],
                            code |-> 400, shown |-> {}]
       ELSE IF ~ \E o \in orders : o.id = po_id /\ o.company = user
       THEN /\ orders' = orders
            /\ response' = [view |-> "update_order_status", user |-> user,
                            request |-> [method |-> method, po_id |-> po_id,
                                         new_status |-> new_status],
                            code |-> 404, shown |-> {}]
       ELSE IF new_status \in STATUS_CHOICES
       THEN /\ orders' = {IF o.id = po_id
                          THEN [o EXCEPT !.status = new_status,
                                         !.actual_delivery =
                                             IF new_status = "DELIVERED" THEN {today} ELSE @]
                          ELSE o : o \in orders}
            /\ response' = [view |-> "update_order_status", user |-> user,
                            request |-> [method |-> method, po_id |-> po_id,
                                         new_status |-> new_status],
                            code |-> 200, shown |-> {user}]
       ELSE /\ orders' = orders
            /\ response' = [view |-> "update_order_status", user |-> user,
                            request |-> [method |-> method, po_id |-> po_id,
                                         new_status |-> new_status],
                            code |-> 400, shown |-> {}]
    /\ UNCHANGED <<db_vars, batch, forecasts, recommendations, fn_in, fn_out,
                   sales_data, horizon, fc>>

\* the purchasing side records the receipt of n units of a line item
\* (PurchaseOrderItem.quantity_received; no view of this repository writes it)
record_receipt(po_id, product_id, n) ==
    /\ \E o \in orders : /\ o.id = po_id
                         /\ \E i \in o.items : /\ i.product = product_id
                                               /\ i.quantity_received + n <= MaxReceived
    /\ orders' = {IF o.id = po_id
                  THEN [o EXCEPT !.items =
                           {IF i.product = product_id
                            THEN [i EXCEPT !.quantity_received = @ + n] ELSE i : i \in @}]
                  ELSE o : o \in orders}
    /\ response' = response
    /\ UNCHANGED <<db_vars, batch, forecasts, recommendations, fn_in, fn_out,
                   sales_data, horizon, fc>>

\* PurchaseOrderItem.objects.filter(product=product), each row with the status
\* of its purchase order
po_items_of(table, product_id) ==
    UNION {{[purchase_order |-> o.id, status |-> o.status,
             quantity_ordered |-> i.quantity_ordered,
             quantity_received |-> i.quantity_received] :
                i \in {j \in o.items : j.product = product_id}} : o \in table}

----------------------------------------------------------------------------
(* SpecOrders: the purchase orders of company A *)

InitOrders ==
    /\ orders = {} /\ response = NoResponse
    /\ batch = NoBatch
    /\ InitIdleStore
    /\ InitIdleFn
    /\ InitIdleForecast

SubmitOrder ==
    \E product_ids \in UNION {[1..n -> ProductIds] : n \in 0..2},
       quantity \in [ProductIds -> OrderQuantities] :
        submit_order("A", product_ids, quantity)

QuickOrder ==
    \E product_id \in ProductIds, recommendation \in LatestRecommendations :
        quick_order("A", product_id, recommendation)

UpdateOrderStatus ==
    \E method \in Methods, po_id \in OrderIds, new_status \in PostedStatuses :
        update_order_status("A", method, po_id, new_status)

RecordReceipt ==
    \E po_id \in OrderIds, product_id \in ProductIds, n \in 1..MaxReceived :
        record_receipt(po_id, product_id, n)

NextOrders == SubmitOrder \/ QuickOrder \/ UpdateOrderStatus \/ RecordReceipt

SpecOrders == InitOrders /\ [][NextOrders]_vars

----------------------------------------------------------------------------
(* procurement/views.py: what a user is shown *)

\* the companies whose rows are among rows, by the company of each row's product
companies_of(rows) == {ProductCompany[r.product] : r \in rows}

\* product_detail of product_id for a user of company user
product_detail(user, product_id) ==
    /\ response' = IF ProductCompany[product_id] = user
                   THEN [view |-> "product_detail", user |-> user,
                         request |-> [product_id |-> product_id],
                         code |-> 200, shown |-> {ProductCompany[product_id]}]
                   ELSE [view |-> "product_detail", user |-> user,
                         request |-> [product_id |-> product_id],
                         code |-> 404, shown |-> {}]
    /\ UNCHANGED <<db_vars, batch, orders, forecasts, recommendations, fn_in, fn_out,
                   sales_data, horizon, fc>>

\* the recommendations query of dashboard, api_recommendations, buying_table
\* and export_buying_table: today's rows of the products of the user's company
api_recommendations(user) ==
    LET rows == {r \in recommendations :
                    ProductCompany[r.product] = user /\ r.analysis_date = today}
    IN /\ response' = [view |-> "api_recommendations", user |-> user, request |-> <<>>,
                       code |-> 200, shown |-> companies_of(rows)]
       /\ UNCHANGED <<db_vars, batch, orders, forecasts, recommendations, fn_in, fn_out,
                      sales_data, horizon, fc>>

\* create_order (POST): the recommendations of the selected products
create_order(user, product_ids) ==
    LET rows == {r \in recommendations :
                    r.product \in product_ids /\ ProductCompany[r.product] = user}
    IN /\ response' = IF product_ids = {}
                      THEN [view |-> "create_order", user |-> user,
                            request |-> [product_ids |-> product_ids],
                            code |-> 400, shown |-> {}]
                      ELSE [view |-> "create_order", user |-> user,
                            request |-> [product_ids |-> product_ids],
                            code |-> 200, shown |-> companies_of(rows)]
       /\ UNCHANGED <<db_vars, batch, orders, forecasts, recommendations, fn_in, fn_out,
                      sales_data, horizon, fc>>

\* purchase_orders: the list of the company's orders
purchase_orders(user) ==
    LET rows == {o \in orders : o.company = user}
    IN /\ response' = [view |-> "purchase_orders", user |-> user, request |-> <<>>,
                       code |-> 200, shown |-> {o.company : o \in rows}]
       /\ UNCHANGED <<db_vars, batch, orders, forecasts, recommendations, fn_in, fn_out,
                      sales_data, horizon, fc>>

\* purchase_order_detail looking the order up by its key alone
purchase_order_detail_any_company(user, po_id) ==
    LET rows == {o \in orders : o.id = po_id}
    IN /\ response' = IF rows = {}
                      THEN [view |-> "purchase_order_detail", user |-> user,
                            request |-> [po_id |-> po_id], code |-> 404, shown |-> {}]
                      ELSE [view |-> "purchase_order_detail", user |-> user,
                            request |-> [po_id |-> po_id], code |-> 200,
                            shown |-> {o.company : o \in rows}]
       /\ UNCHANGED <<db_vars, batch, orders, forecasts, recommendations, fn_in, fn_out,
                      sales_data, horizon, fc>>

\* purchase_order_detail of order po_id for a user of company user
purchase_order_detail(user, po_id) ==
    LET rows == {o \in orders : o.id = po_id /\ o.company = user}
    IN /\ response' = IF rows = {}
                      THEN [view |-> "purchase_order_detail", user |-> user,
                            request |-> [po_id |-> po_id], code |-> 404, shown |-> {}]
                      ELSE [view |-> "purchase_order_detail", user |-> user,
                            request |-> [po_id |-> po_id], code |-> 200,
                            shown |-> {o.company : o \in rows}]
       /\ UNCHANGED <<db_vars, batch, orders, forecasts, recommendations, fn_in, fn_out,
                      sales_data, horizon, fc>>

\* the recommended_quantity of the latest recommendation of product_id
latest_recommendation(product_id) ==
    LET rows == {r \in recommendations : r.product = product_id}
    IN {r.recommended_quantity :
            r \in {x \in rows : \A y \in rows : y.analysis_date <= x.analysis_date}}

----------------------------------------------------------------------------
(* SpecTenant: company A's data, and the requests of a user of company B *)

\* the purchase order company A has when B's user starts
OrdersOfA ==
    {{[id |-> 1, company |-> "A", po_number |-> <<day, 1>>, order_date |-> day,
       status |-> status, actual_delivery |-> {},
       items |-> {[product |-> "pa", quantity_ordered |-> 1, quantity_received |-> 0]}]} :
         day \in {today - 1, today}, status \in {"DRAFT", "SUBMITTED"}}

\* the recommendations stored: one for A's product, with or without one for B's
RecommendationRows ==
    {{[product |-> product_id, analysis_date |-> today, recommended_quantity |-> 1] :
          product_id \in P} : P \in {{"pa"}, {"pa", "pb"}}}

InitTenant ==
    /\ orders \in OrdersOfA
    /\ recommendations \in RecommendationRows
    /\ response = NoResponse
    /\ batch = NoBatch
    /\ snapshots = {} /\ aggregates = {} /\ po_items = {} /\ attributes = {}
    /\ forecasts = {}
    /\ InitIdleFn
    /\ InitIdleForecast

ProductDetail == \E product_id \in ProductIds : product_detail("B", product_id)

ApiRecommendations == api_recommendations("B")

CreateOrder == \E product_ids \in SUBSET ProductIds : create_order("B", product_ids)

PurchaseOrders == purchase_orders("B")

PurchaseOrderDetail == \E po_id \in OrderIds : purchase_order_detail("B", po_id)

UpdateOrderStatusB ==
    \E method \in Methods, po_id \in OrderIds, new_status \in PostedStatuses :
        update_order_status("B", method, po_id, new_status)

SubmitOrderB ==
    \E product_ids \in UNION {[1..n -> ProductIds] : n \in 0..2},
       quantity \in [ProductIds -> OrderQuantities] :
        submit_order("B", product_ids, quantity)

QuickOrderB ==
    \E product_id \in ProductIds :
        quick_order("B", product_id, latest_recommendation(product_id))

NextTenant ==
    \/ ProductDetail \/ ApiRecommendations \/ CreateOrder \/ PurchaseOrders
    \/ PurchaseOrderDetail \/ UpdateOrderStatusB \/ SubmitOrderB \/ QuickOrderB

SpecTenant == InitTenant /\ [][NextTenant]_vars

----------------------------------------------------------------------------
(* integrations/tasks.py: update_daily_aggregates *)

\* Product.objects.filter(company=company, is_active=True), in the order the
\* query returns them
ActiveProducts == <<"p1", "p2">>

\* the quantities of the SalesTransaction rows of product on date; sales maps
\* the days that have any to them
transactions_on(sales, product, date) ==
    IF <<product, date>> \in DOMAIN sales THEN sales[<<product, date>>] ELSE <<>>

\* DailySalesAggregate.objects.update_or_create(product, date, defaults)
aggregate_update_or_create(table, product, date, total_quantity) ==
    {a \in table : ~(a.product = product /\ a.date = date)}
        \cup {[product |-> product, date |-> date, total_quantity |-> total_quantity]}

RECURSIVE aggregate_products(_, _, _, _)
\* the for loop over the products left: a product without sales on current_date
\* advances current_date before the loop continues with the next product
aggregate_products(table, products, current_date, sales) ==
    IF products = <<>> THEN [table |-> table, current_date |-> current_date]
    ELSE LET product == Head(products)
             quantities == transactions_on(sales, product, current_date)
         IN IF quantities = <<>>
            THEN aggregate_products(table, Tail(products), current_date + 1, sales)
            ELSE aggregate_products(
                     aggregate_update_or_create(table, product, current_date,
                                                SeqSum(quantities)),
                     Tail(products), current_date, sales)

RECURSIVE aggregate_dates(_, _, _, _)
\* the while loop from current_date on
aggregate_dates(table, current_date, end_date, sales) ==
    IF current_date > end_date THEN table
    ELSE LET pass == aggregate_products(table, ActiveProducts, current_date, sales)
         IN aggregate_dates(pass.table, pass.current_date + 1, end_date, sales)

\* update_daily_aggregates(company_id, start_date, end_date)
update_daily_aggregates ==
    /\ fn_out = {}
    /\ IF ~fn_in.company_exists
       THEN /\ fn_out' = {[status |-> "error", message |-> "Company not found"]}
            /\ UNCHANGED aggregates
       ELSE /\ aggregates' = aggregate_dates(aggregates, fn_in.start_date, fn_in.end_date,
                                             fn_in.sales)
            /\ fn_out' = {[status |-> "success",
                           date_range |-> <<fn_in.start_date, fn_in.end_date>>]}
    /\ UNCHANGED <<snapshots, po_items, attributes, ext_vars, forecasts, recommendations,
                   fn_in, sales_data, horizon, fc>>

----------------------------------------------------------------------------
(* SpecAggregates: update_daily_aggregates run on drawn sales transactions *)

\* the quantities of the transactions of one product on one day
TransactionLists == {<<>>, <<1>>, <<1, 2>>}

InitAggregates ==
    /\ fn_in \in [op : {"aggregates"}, company_exists : BOOLEAN,
                  start_date : 1..MaxDay, end_date : 1..MaxDay,
                  sales : [{"p1", "p2"} \X (1..MaxDay) -> TransactionLists]]
    /\ fn_out = {}
    /\ InitIdleStore
    /\ InitIdleForecast
    /\ InitIdleExt

NextAggregates == update_daily_aggregates

SpecAggregates == InitAggregates /\ [][NextAggregates]_vars

----------------------------------------------------------------------------
(* sales/inventory_service.py: InventoryService.transfer_stock *)

\* A call runs inside transaction.atomic() and reads its snapshots with
\* get_or_create, without select_for_update.  The store is taken to isolate
\* transactions as READ COMMITTED does (the default of Django's PostgreSQL
\* backend): a read sees committed rows, a written row is locked until the
\* writer commits, and the writes of a transaction appear at its commit.

\* the requests that call transfer_stock at the same time
Procs == {1, 2}

\* no call is running
IdleCall == [pc |-> "idle", from_warehouse |-> 0, to_warehouse |-> 0, quantity |-> 0,
             from_quantity |-> 0, to_quantity |-> 0, result |-> "none"]

\* quantity_available of the committed snapshot of warehouse today, {} if none
committed_quantity(warehouse) ==
    {r.quantity_available : r \in {r \in snapshots : r.warehouse = warehouse
                                                      /\ r.snapshot_date = today}}

\* snapshot.save(): the table with the snapshot of warehouse today set to quantity
save_snapshot(table, warehouse, quantity) ==
    {r \in table : ~(r.warehouse = warehouse /\ r.snapshot_date = today)}
        \cup {[warehouse |-> warehouse, snapshot_date |-> today,
               quantity_available |-> quantity]}

\* another call has written the snapshot of warehouse and not committed yet
locked_by_other(p, warehouse) ==
    \E q \in Procs \ {p} :
        /\ fn_in.call[q].pc \in {"from_saved", "to_read"}
        /\ fn_in.call[q].from_warehouse = warehouse

----------------------------------------------------------------------------
(* SpecTransfer: concurrent transfer_stock calls on one product and date *)

InitTransfer ==
    /\ snapshots \in {S \in SUBSET [warehouse : Warehouses, snapshot_date : {today},
                                    quantity_available : 0..MaxStock] :
                         \A r1, r2 \in S : r1.warehouse = r2.warehouse => r1 = r2}
    /\ fn_in = [op |-> "transfer", started |-> 0, call |-> [p \in Procs |-> IdleCall]]
    /\ fn_out = {}
    /\ aggregates = {} /\ po_items = {} /\ attributes = {}
    /\ forecasts = {} /\ recommendations = {}
    /\ InitIdleForecast
    /\ InitIdleExt

\* validation, get_or_create of the source snapshot and the stock check; a call
\* that returns here commits what get_or_create inserted
TransferBegin ==
    \E p \in Procs, from_warehouse \in Warehouses, to_warehouse \in Warehouses,
       quantity \in 0..MaxStock :
      LET found == committed_quantity(from_warehouse)
          available == IF found = {} THEN 0 ELSE CHOOSE q \in found : TRUE
          rejected(reason) == [fn_in EXCEPT !.started = @ + 1,
                                            !.call[p] = [IdleCall EXCEPT !.result = reason]]
      IN /\ fn_in.call[p].pc = "idle"
         /\ fn_in.started < MaxCalls
         /\ IF quantity <= 0
            THEN fn_in' = rejected("Quantity must be positive") /\ UNCHANGED snapshots
            ELSE IF from_warehouse = to_warehouse
            THEN fn_in' = rejected("Source and destination warehouses must be different")
                 /\ UNCHANGED snapshots
            ELSE IF available < quantity
            THEN /\ fn_in' = rejected("Insufficient stock in source warehouse")
                 /\ snapshots' = IF found = {}
                                 THEN save_snapshot(snapshots, from_warehouse, 0)
                                 ELSE snapshots
            ELSE /\ fn_in' = [fn_in EXCEPT !.started = @ + 1,
                                           !.call[p] = [IdleCall EXCEPT
                                                            !.pc = "checked",
                                                            !.from_warehouse = from_warehouse,
                                                            !.to_warehouse = to_warehouse,
                                                            !.quantity = quantity,
                                                            !.from_quantity = available]]
                 /\ UNCHANGED snapshots
         /\ UNCHANGED <<fn_out, aggregates, po_items, attributes, ext_vars, forecasts,
                        recommendations, sales_data, horizon, fc>>

\* from_snapshot.quantity_available -= quantity; from_snapshot.save()
TransferSaveFrom ==
    \E p \in Procs :
      LET c == fn_in.call[p]
      IN /\ c.pc = "checked"
         /\ ~locked_by_other(p, c.from_warehouse)
         /\ fn_in' = [fn_in EXCEPT !.call[p].pc = "from_saved",
                                   !.call[p].from_quantity = @ - c.quantity]
         /\ UNCHANGED <<snapshots, fn_out, aggregates, po_items, attributes, ext_vars,
                        forecasts, recommendations, sales_data, horizon, fc>>

\* get_or_create of the destination snapshot
TransferGetTo ==
    \E p \in Procs :
      LET c == fn_in.call[p]
          found == committed_quantity(c.to_warehouse)
      IN /\ c.pc = "from_saved"
         /\ fn_in' = [fn_in EXCEPT !.call[p].pc = "to_read",
                                   !.call[p].to_quantity =
                                       IF found = {} THEN 0 ELSE CHOOSE q \in found : TRUE]
         /\ UNCHANGED <<snapshots, fn_out, aggregates, po_items, attributes, ext_vars,
                        forecasts, recommendations, sales_data, horizon, fc>>

\* to_snapshot.quantity_available += quantity; to_snapshot.save(), the two
\* movements, and the commit at the end of the atomic block
TransferSaveTo ==
    \E p \in Procs :
      LET c == fn_in.call[p]
          transfer == Cardinality(fn_out) \div 2 + 1
      IN /\ c.pc = "to_read"
         /\ ~locked_by_other(p, c.to_warehouse)
         /\ snapshots' = save_snapshot(save_snapshot(snapshots, c.from_warehouse,
                                                     c.from_quantity),
                                       c.to_warehouse, c.to_quantity + c.quantity)
         /\ fn_out' = fn_out \cup
                {[transfer |-> transfer, warehouse |-> c.from_warehouse,
                  movement_type |-> "TRANSFER", quantity |-> 0 - c.quantity],
                 [transfer |-> transfer, warehouse |-> c.to_warehouse,
                  movement_type |-> "TRANSFER", quantity |-> c.quantity]}
         /\ fn_in' = [fn_in EXCEPT !.call[p] = [IdleCall EXCEPT !.result = "success"]]
         /\ UNCHANGED <<aggregates, po_items, attributes, ext_vars, forecasts,
                        recommendations, sales_data, horizon, fc>>

\* two calls wait for each other's row: the store ends one of them with an
\* error, the atomic block rolls back and the call returns the error
TransferDeadlock ==
    \E p \in Procs :
      LET c == fn_in.call[p]
      IN /\ c.pc = "to_read"
         /\ \E q \in Procs \ {p} :
              /\ fn_in.call[q].pc = "to_read"
              /\ fn_in.call[q].from_warehouse = c.to_warehouse
              /\ fn_in.call[q].to_warehouse = c.from_warehouse
         /\ fn_in' = [fn_in EXCEPT !.call[p] = [IdleCall EXCEPT
                                                    !.result = "deadlock detected"]]
         /\ UNCHANGED <<snapshots, fn_out, aggregates, po_items, attributes, ext_vars,
                        forecasts, recommendations, sales_data, horizon, fc>>

NextTransfer ==
    \/ TransferBegin \/ TransferSaveFrom \/ TransferGetTo \/ TransferSaveTo
    \/ TransferDeadlock

SpecTransfer == InitTransfer /\ [][NextTransfer]_vars

----------------------------------------------------------------------------
(* Properties of the procurement analysis (Spec) *)

\* the aggregates of the store inside the lookback window that ends at date d
InWindow(d) == {a \in aggregates : a.date >= d - 30 /\ a.date <= d}

\* no sale is recorded inside the window of date d: no aggregate, or only zero ones
NoSales(d) == \A a \in InWindow(d) : a.total_quantity = 0

\* the stored sentence list carries the out-of-stock flag
HasOutOfStockFlag(notes) == \E i \in 1..Len(notes) : notes[i].text = "Currently out of stock!"

\* C1: a product with a daily burn rate of 0 (no aggregates in the lookback
\* window, or only zero-quantity ones) gets runway_days = 999 and is never put
\* in ORDER_TODAY, whatever its stock, in-transit quantity and configuration.
C1_ZeroBurnNeverOrderToday ==
    \A r \in recommendations :
        NoSales(r.analysis_date) =>
            r.runway_days = 999 /\ r.action_category # "ORDER_TODAY"

\* C1 witness: an out-of-stock product without sales and without open orders was analysed
C1_Witness ==
    \E r \in recommendations :
        /\ NoSales(r.analysis_date)
        /\ InWindow(r.analysis_date) # {}
        /\ r.current_stock = 0
        /\ r.metadata.in_transit_quantity = 0
        /\ attributes # {}

\* in-transit quantity >= burn rate x lead time, on the exact quotient
CoversLeadTime(r) ==
    r.metadata.in_transit_quantity * r.daily_burn_rate.den
        >= r.daily_burn_rate.num * r.metadata.lead_time

\* C2 as stated: whenever in_transit_quantity >= burn_rate x lead_time_days the
\* category is ALREADY_ORDERED, in_transit_quantity = 0 included.
C2_CoverageAlwaysAlreadyOrdered ==
    \A r \in recommendations : CoversLeadTime(r) => r.action_category = "ALREADY_ORDERED"

\* C2 amended: whenever in_transit_quantity > 0 and in_transit_quantity >=
\* burn_rate x lead_time_days the category is ALREADY_ORDERED.
C2_PositiveCoverageAlreadyOrdered ==
    \A r \in recommendations :
        (r.metadata.in_transit_quantity > 0 /\ CoversLeadTime(r))
            => r.action_category = "ALREADY_ORDERED"

\* C2 witness: an open order that covers the lead-time demand of a selling product exactly
C2_Witness ==
    \E r \in recommendations :
        /\ r.daily_burn_rate.num > 0
        /\ r.metadata.in_transit_quantity > 0
        /\ r.metadata.in_transit_quantity * r.daily_burn_rate.den
               = r.daily_burn_rate.num * r.metadata.lead_time
        /\ r.action_category = "ALREADY_ORDERED"

\* C3: re-running the analysis of a (product, analysis date) on unchanged data
\* leaves exactly one stored recommendation for the key, every field of it equal
\* to what the earlier run stored.
C3_RerunIdentical ==
    [][\A d \in AnalysisDates :
          LET before == {r \in recommendations : r.analysis_date = d}
              after == {r \in recommendations' : r.analysis_date = d}
          IN before # {} => (after = before /\ Cardinality(after) = 1)]_vars

\* C26: the current stock read for a (product, analysis date) is a function of
\* the snapshot set: a later run over the same snapshots stores the same
\* current_stock as the run before it, also when several warehouses have a
\* snapshot on the date.
C26_StockIsFunctionOfSnapshots ==
    [][snapshots' = snapshots =>
          \A r \in recommendations, rr \in recommendations' :
              rr.analysis_date = r.analysis_date => rr.current_stock = r.current_stock]_vars

\* C6: whenever the current stock is 0, also when no snapshot exists, the notes
\* carry the out-of-stock flag, in every action category.
C6_OutOfStockFlagged ==
    \A r \in recommendations : r.current_stock = 0 => HasOutOfStockFlag(r.notes)

\* C6 witness: a product without any snapshot for the date, with a partially
\* covering order, was analysed and put in ATTENTION_REQUIRED
C6_Witness ==
    \E r \in recommendations :
        /\ r.current_stock = 0
        /\ \A s \in snapshots : s.snapshot_date # r.analysis_date
        /\ r.action_category = "ATTENTION_REQUIRED"
        /\ r.metadata.in_transit_quantity > 0
        /\ HasOutOfStockFlag(r.notes)

\* the snapshots dated at or before day d that no later such snapshot follows
LatestSnapshots(d) ==
    {s \in snapshots : /\ s.snapshot_date <= d
                       /\ \A t \in snapshots : t.snapshot_date <= d
                                                  => t.snapshot_date <= s.snapshot_date}

\* C15: the analyzer's current stock is the quantity_available of the latest
\* inventory snapshot dated at or before the analysis date, also when that
\* snapshot is from an earlier day, and 0 only when no such snapshot exists.
C15_LatestSnapshotAtOrBefore ==
    \A r \in recommendations :
        IF LatestSnapshots(r.analysis_date) = {} THEN r.current_stock = 0
        ELSE \E s \in LatestSnapshots(r.analysis_date) :
                 r.current_stock = s.quantity_available

\* the aggregates dated in the 30 days that end at d
Trailing30(d) == {a \in aggregates : a.date > d - 30 /\ a.date <= d}

\* C21: the daily burn rate is the total quantity of the aggregates dated in
\* the trailing 30 days ending at the analysis date, divided by the number of
\* those aggregates, and 0 when there is none; aggregates dated outside these
\* 30 days or after the analysis date do not influence it.
C21_BurnRateOverTrailing30Days ==
    \A r \in recommendations :
        LET rows == Trailing30(r.analysis_date)
            total == SumOver(rows, [a \in rows |-> a.total_quantity])
        IN IF rows = {}
           THEN r.daily_burn_rate.num = 0
           ELSE r.daily_burn_rate.num * Cardinality(rows) = total * r.daily_burn_rate.den

----------------------------------------------------------------------------
(* Properties of the analyzer's calculations (SpecFn) *)

\* required inventory: burn rate x (lead time + safety stock), truncated
Required ==
    TruncDiv(fn_in.daily_burn_rate.num * (FnSelf.lead_time + FnSelf.safety_stock_days),
             fn_in.daily_burn_rate.den)

Shortfall == Required - (fn_in.current_stock + fn_in.in_transit_qty)

\* C4: with burn rate, threshold and confidence held fixed, the priority score
\* never increases with the runway: r1 < r2 gives priority(r1) >= priority(r2),
\* also across runway = reorder threshold.
C4_PriorityMonotone ==
    \A a, b \in fn_out.priority :
        a.runway_days < b.runway_days => a.priority_score >= b.priority_score

\* C4 witness: the scores of a runway inside the ramp and of one past the
\* threshold were computed, and the first is strictly larger
C4_Witness ==
    \E a, b \in fn_out.priority :
        /\ 0 < a.runway_days /\ a.runway_days < FnSelf.reorder_threshold
        /\ b.runway_days > FnSelf.reorder_threshold
        /\ a.priority_score > b.priority_score

\* C5: a shortfall strictly between 0 and minimum_order_quantity is raised to
\* exactly minimum_order_quantity.
C5_MinimumOrderFloor ==
    \A q \in fn_out.recommended :
        (0 < Shortfall /\ Shortfall < FnSelf.min_order_qty) => q = FnSelf.min_order_qty

\* C5 witness: a shortfall of 2 with a minimum order quantity of 3 was computed
C5_Witness ==
    /\ fn_out.recommended # {}
    /\ Shortfall = 2
    /\ FnSelf.min_order_qty = 3

\* the scenario of C7: burn 2.5, stock 5, lead 14, safety 3, minimum 1, threshold 7, no in-transit
Scenario ==
    /\ fn_in.daily_burn_rate = [num |-> 5, den |-> 2]
    /\ fn_in.current_stock = 5
    /\ fn_in.in_transit_qty = 0
    /\ fn_in.attributes = {}

\* C7: the recommended quantity is max(0, R - (stock + in-transit)), raised to
\* the minimum order quantity when strictly between 0 and it, R being burn rate
\* x (lead time + safety stock) truncated; the scenario gives runway 2,
\* required 42, recommended 37 and ORDER_TODAY.
C7_RecommendedQuantityFormula ==
    LET expected == IF 0 < Shortfall /\ Shortfall < FnSelf.min_order_qty
                    THEN FnSelf.min_order_qty ELSE Max(0, Shortfall)
    IN /\ \A q \in fn_out.recommended : q = expected
       /\ \A r \in fn_out.analysis :
            /\ r.recommended_quantity = expected
            /\ Scenario => /\ Required = 42
                           /\ r.runway_days = 2
                           /\ r.recommended_quantity = 37
                           /\ r.action_category = "ORDER_TODAY"

\* C8: the priority score lies in 0..100 (0..10000 hundredths) for every
\* runway, burn rate, threshold and confidence, absent or out of 0..100.
C8_PriorityInRange ==
    /\ \A a \in fn_out.priority : a.priority_score >= 0 /\ a.priority_score <= 10000
    /\ \A r \in fn_out.analysis : r.priority_score >= 0 /\ r.priority_score <= 10000

\* C8 witness: scores were computed for which the product leaves the range,
\* above with a confidence score of 120.00 or below with a negative one
C8_Witness ==
    \E a \in fn_out.priority :
        /\ a.runway_days = 0
        /\ \/ fn_in.forecast_confidence = {12000} /\ a.priority_score = 10000
           \/ fn_in.forecast_confidence = {-1000} /\ a.priority_score = 0

\* C17: the analysis of a product without procurement configuration uses the
\* defaults 7, 14, 3 and 1, and its result differs (in its metadata) from the
\* result for a product configured with those same values on the same inputs.
C17_DefaultsSurfacedInMetadata ==
    (fn_in.op = "args" /\ fn_in.attributes = {}) =>
        \A r \in fn_out.analysis :
            /\ FnSelf.reorder_threshold = 7 /\ FnSelf.lead_time = 14
            /\ FnSelf.safety_stock_days = 3 /\ FnSelf.min_order_qty = 1
            /\ r.metadata.reorder_threshold = 7 /\ r.metadata.lead_time = 14
            /\ r.metadata.safety_stock_days = 3
            /\ r # analyze(ProcurementAnalyzer(DefaultsConfigured, 31), fn_in.current_stock,
                           fn_in.daily_burn_rate, fn_in.in_transit_qty,
                           fn_in.forecast_confidence)

\* C27: an analysis whose action category is ORDER_TODAY or ATTENTION_REQUIRED
\* recommends a quantity above 0, for every stock, burn rate and in-transit
\* quantity.
C27_ActionHasQuantity ==
    fn_in.op = "args" =>
        \A r \in fn_out.analysis :
            r.action_category \in {"ORDER_TODAY", "ATTENTION_REQUIRED"} =>
                r.recommended_quantity > 0

\* the category the stated precedence gives, the lead-time demand being the
\* exact product burn rate x lead time
StatedCategory(self, c, daily_burn_rate) ==
    IF c.in_transit_qty > 0
    THEN IF c.in_transit_qty * daily_burn_rate.den >= daily_burn_rate.num * self.lead_time
         THEN "ALREADY_ORDERED" ELSE "ATTENTION_REQUIRED"
    ELSE IF c.runway_days <= self.reorder_threshold /\ c.recommended_qty > 0
    THEN "ORDER_TODAY"
    ELSE IF c.recommended_qty > 0 /\ 2 * c.runway_days <= 3 * self.reorder_threshold
    THEN "ATTENTION_REQUIRED"
    ELSE "NORMAL"

\* C20: determine_action_category returns one of the four categories, and the
\* one the stated precedence gives: with something in transit ALREADY_ORDERED
\* when it covers burn rate x lead time and ATTENTION_REQUIRED otherwise; else
\* ORDER_TODAY iff runway <= threshold and recommended > 0; else
\* ATTENTION_REQUIRED iff recommended > 0 and runway <= 1.5 x threshold; else NORMAL.
C20_CategoryFollowsPrecedence ==
    \A c \in fn_out.category :
        /\ c.action_category \in ACTION_CATEGORIES
        /\ c.action_category = StatedCategory(FnSelf, c, fn_in.daily_burn_rate)

\* C22: for every current stock and every burn rate > 0 the runway is
\* max(0, floor(current stock / burn rate)), never negative, and the stockout
\* date is the analysis date plus the runway.
C22_RunwayIsFlooredQuotient ==
    \A c \in fn_out.runway :
        /\ c.runway_days
             = Max(0, (c.current_stock * c.daily_burn_rate.den) \div c.daily_burn_rate.num)
        /\ c.runway_days >= 0
        /\ c.stockout_date = FnSelf.current_date + c.runway_days

----------------------------------------------------------------------------
(* Properties of the forecasters (SpecForecast) *)

\* the ranges of a Forecast record: predicted_quantity >= 0, both confidence
\* bounds >= 0, confidence_score in 0..100 (0..10000 hundredths)
WithinRanges(r) ==
    /\ r.predicted_quantity >= 0
    /\ r.confidence_lower >= 0
    /\ r.confidence_upper >= 0
    /\ r.confidence_score >= 0 /\ r.confidence_score <= 10000

\* C9: every forecast row produced by the moving-average or the regression
\* forecaster, and every Forecast record stored from it, has predicted_quantity
\* >= 0, confidence_lower >= 0, confidence_upper >= 0 and confidence_score in
\* 0..100, for every history and horizon step, including histories whose
\* standard deviation exceeds prediction + 1.
C9_ForecastsWithinRanges ==
    /\ fc.pc = "simple" =>
           \A i \in DOMAIN fc.rows : WithinRanges(simple_forecast_row(fc.rows[i]))
    /\ fc.pc = "regression" => \A i \in DOMAIN fc.rows : WithinRanges(fc.rows[i])
    /\ \A r \in forecasts : WithinRanges(r)

\* C10: for every history of non-negative quantities and every horizon h >= 0
\* SimpleForecaster.generate_forecast_for_product returns exactly h rows, row
\* i dated i days after today, each with predicted_quantity >= 0.
C10_SimpleForecastRows ==
    fc.pc = "simple" =>
        /\ DOMAIN fc.rows = 1..horizon
        /\ \A i \in 1..horizon :
              /\ fc.rows[i].forecast_date = today + i
              /\ fc.rows[i].predicted_quantity >= 0

\* C10 witness: the moving-average forecaster returned rows for two or more
\* days from a history that sold something
C10_Witness ==
    /\ fc.pc = "simple"
    /\ horizon >= 2
    /\ Len(fc.rows) = horizon
    /\ \E i \in DOMAIN sales_data : sales_data[i] > 0
    /\ fc.rows[1].predicted_quantity > 0

\* C11: for a product with an empty sales history the moving-average
\* forecaster does not raise and returns exactly horizon rows, all with
\* predicted_quantity = 0 and confidence_level = LOW.
C11_EmptyHistoryAllZero ==
    (fc.pc = "simple" /\ sales_data = <<>>) =>
        /\ fc.status = "success"
        /\ DOMAIN fc.rows = 1..horizon
        /\ \A i \in 1..horizon :
              /\ fc.rows[i].predicted_quantity = 0
              /\ fc.rows[i].confidence_level = "LOW"

\* C11 witness: the moving-average forecaster ran for two or more days on an
\* empty history
C11_Witness == fc.pc = "simple" /\ sales_data = <<>> /\ Len(fc.rows) >= 2

\* the stored forecasts cover every requested day
ForecastsProduced == \A i \in 1..horizon : \E r \in forecasts : r.forecast_date = today + i

\* C12: when the regression run meets a history that yields fewer than 10
\* usable rows, training fails with the insufficient-data error and
\* generate_product_forecast falls back to the moving-average forecaster, so
\* that forecasts are still produced for the product.
C12_InsufficientDataFallsBack ==
    (fc.pc = "regression" /\ train_raises(prepare_sales_history(sales_data))) =>
        ForecastsProduced

\* the Forecast record a run writes for its i-th row
WrittenBy(run, i) ==
    IF run.pc = "simple" THEN simple_forecast_row(run.rows[i])
    ELSE forecast_row(run.rows[i], "v1.0")

\* the dates a run wrote
CoveredBy(run) ==
    IF run.status = "success" THEN {run.rows[i].forecast_date : i \in DOMAIN run.rows}
    ELSE {}

\* C13: after any sequence of forecast runs (regression and moving-average, in
\* any order, repeated) there is at most one stored Forecast per forecast
\* date; the record of a date the latest run covered carries that run's
\* predicted quantity, bounds, confidence score and model version, and the
\* record of a date it did not cover is the one stored before.
C13_LatestRunSupersedes ==
    [][/\ \A r1, r2 \in forecasts' : r1.forecast_date = r2.forecast_date => r1 = r2
       /\ fc'.status = "success" => \A i \in DOMAIN fc'.rows : WrittenBy(fc', i) \in forecasts'
       /\ \A r \in forecasts : r.forecast_date \notin CoveredBy(fc') => r \in forecasts'
       /\ \A r \in forecasts' : r.forecast_date \notin CoveredBy(fc') => r \in forecasts]_vars

\* C13 witness: a regression run stored its rows for two or more days, one
\* record per day
C13_Witness ==
    /\ fc.pc = "regression" /\ fc.status = "success"
    /\ Len(fc.rows) >= 2
    /\ Cardinality(forecasts) = Len(fc.rows)
    /\ \A r \in forecasts : r.model_version = "v1.0"

----------------------------------------------------------------------------
(* Properties of the company batch tasks (SpecBatch) *)

\* C14: in a company batch run (analyze_company_procurement,
\* generate_company_forecasts) a product that fails, by a missing entity, an
\* analyzer or model exception or a save or read error, does not stop the
\* others: the batch ends with status 'complete' and success + failed
\* (+ skipped) equals the number of active products iterated.
C14_BatchCompletes ==
    /\ batch.task = "analyze_company_procurement" =>
          /\ batch.result.status = "complete"
          /\ batch.result.success + batch.result.failed = Len(batch.products)
    /\ batch.task = "generate_company_forecasts" =>
          /\ batch.result.status = "complete"
          /\ batch.result.success + batch.result.failed + batch.result.skipped
                 = Len(batch.products)

\* C14 witness: a procurement batch ended in which a product raised out of its
\* analysis and a later product was analysed and counted
C14_Witness ==
    /\ batch.task = "analyze_company_procurement"
    /\ \E i, j \in DOMAIN batch.products :
          /\ i < j
          /\ batch.products[i].kind = "db_error"
          /\ batch.products[j].kind = "ok"
    /\ batch.result.success >= 1
    /\ batch.result.failed >= 1

----------------------------------------------------------------------------
(* Properties of the purchase orders (SpecOrders) *)

\* the statuses of an order on its way
InFlight == {"SUBMITTED", "CONFIRMED", "IN_TRANSIT"}

\* the line items of product_id in order o
ItemsOf(o, product_id) == {i \in o.items : i.product = product_id}

\* the outstanding units of product_id over the orders in flight, the units of
\* an over-received item counted as negative
Outstanding(product_id) ==
    SumOver(orders,
            [o \in orders |->
                IF o.status \in InFlight
                THEN SumOver(ItemsOf(o, product_id),
                             [i \in ItemsOf(o, product_id) |->
                                 i.quantity_ordered - i.quantity_received])
                ELSE 0])

\* the same, an over-received item counting as nothing outstanding
OutstandingNonNegative(product_id) ==
    SumOver(orders,
            [o \in orders |->
                IF o.status \in InFlight
                THEN SumOver(ItemsOf(o, product_id),
                             [i \in ItemsOf(o, product_id) |->
                                 IF i.quantity_ordered > i.quantity_received
                                 THEN i.quantity_ordered - i.quantity_received ELSE 0])
                ELSE 0])

OrderById(table, po_id) == {o \in table : o.id = po_id}

\* C18: update_order_status posted with a status that is not one of the six
\* defined ones answers 400 and leaves the order's status and actual_delivery
\* as they were; posted with a defined status it sets the order's status to it,
\* sets actual_delivery when the status is DELIVERED and leaves actual_delivery
\* alone otherwise.
C18_StatusUpdateChecked ==
    [][(/\ response'.view = "update_order_status"
        /\ response'.request.method = "POST"
        /\ OrderById(orders, response'.request.po_id) # {})
       => LET request == response'.request
          IN \A o \in OrderById(orders, request.po_id) :
               \E o2 \in OrderById(orders', request.po_id) :
                 IF request.new_status \in STATUS_CHOICES
                 THEN /\ response'.code = 200
                      /\ o2.status = request.new_status
                      /\ o2.actual_delivery =
                             IF request.new_status = "DELIVERED" THEN {today}
                             ELSE o.actual_delivery
                 ELSE /\ response'.code = 400
                      /\ o2.status = o.status
                      /\ o2.actual_delivery = o.actual_delivery]_vars

\* an undefined status was posted for an order delivered earlier and was refused
C18_Witness ==
    /\ response.view = "update_order_status"
    /\ response.request.method = "POST"
    /\ response.request.new_status \notin STATUS_CHOICES
    /\ response.code = 400
    /\ \E o \in OrderById(orders, response.request.po_id) :
           o.status = "DELIVERED" /\ o.actual_delivery = {today}

----------------------------------------------------------------------------
(* Properties of the requests of another company's user (SpecTenant) *)

\* the purchase orders of company in table
OrdersOf(table, company) == {o \in table : o.company = company}

C28_PoNumberFresh ==
    [][(/\ response'.view \in {"submit_order", "quick_order"}
        /\ response'.code # 404
        /\ response' # response \/ \E o \in orders' : \A e \in orders : e.id # o.id) =>
          \E o \in orders' :
              /\ \A e \in orders : e.id # o.id
              /\ \A e \in orders : e.po_number # o.po_number]_vars

----------------------------------------------------------------------------
(* Properties of the feature engineering (SpecFeatures) *)

\* C23: engineer_features keeps a row if and only if fewer than half of its
\* feature columns are null (of the 8 columns: dropped with 4 nulls, kept with
\* 3 or fewer), and no feature of a kept row is null after the filling.
C23_KeptIffFewerThanHalfNull ==
    \A r \in fn_out :
        /\ r.kept <=> 2 * r.feature_null_count < Cardinality(feature_cols)
        /\ r.kept => \A col \in feature_cols : r.features[col] = "num"

----------------------------------------------------------------------------
(* Properties of the forecaster calls (SpecForecaster) *)

\* the quantity column predict holds at step i of a call on the column q that
\* has returned rows: q and the values of the steps before i, less the rows
\* feature engineering has dropped by then (the oldest one each time)
KnownQuantity(q, rows, i) ==
    SubSeq(q \o [j \in 1..Len(rows) |-> rows[j].predicted_quantity], i + 1, Len(q) + i - 1)

\* C24: whichever steps of a predict call fail in the model, the call is not
\* aborted: it returns exactly forecast_days rows, dated on consecutive days
\* from the day after the last day of the history, every failed step carries
\* the truncated mean of the quantity column known at that step, not below 0,
\* and that column holds the values of the steps before it.
C24_FailedStepsFallBackToMean ==
    fn_out.call = "predict" =>
        /\ (fn_in.self.model = "fitted" /\ Len(fn_out.sales_history.quantity) >= 2)
               => ~fn_out.raised
        /\ ~fn_out.raised =>
               /\ Len(fn_out.rows) = fn_out.forecast_days
               /\ \A i \in 1..fn_out.forecast_days :
                    LET known == KnownQuantity(fn_out.sales_history.quantity, fn_out.rows, i)
                    IN /\ fn_out.rows[i].forecast_date = today + i
                       /\ ~fn_out.outcomes[i].ok =>
                              fn_out.rows[i].predicted_quantity =
                                  Max(0, TruncDiv(SeqSum(known), Len(known)))

\* a call whose first step returned 3 and whose second step failed: the second
\* row is the mean of ten days of 20 and the 3
C24_Witness ==
    /\ fn_out.call = "predict" /\ ~fn_out.raised
    /\ fn_out.forecast_days = 2
    /\ fn_out.outcomes[1] = [ok |-> TRUE, value |-> 3]
    /\ ~fn_out.outcomes[2].ok
    /\ fn_out.rows[2].predicted_quantity = 18

\* C25: predict returns rows only on a forecaster on which a train call has
\* returned before: on a forecaster never trained, or whose train calls all
\* raised for insufficient data, it raises and returns no row, and a train call
\* that raised leaves the forecaster without a model.
C25_NoForecastWithoutTraining ==
    /\ (fn_out.call = "predict" /\ ~fn_in.trained) =>
           fn_out.raised /\ fn_out.rows = <<>>
    /\ (fn_out.call = "predict" /\ ~fn_out.raised) => fn_in.trained
    /\ (fn_in.failed /\ ~fn_in.trained) => fn_in.self.model = "None"

\* predict called with a history that leaves rows to forecast from, after a
\* train call that raised
C25_Witness ==
    /\ fn_out.call = "predict" /\ fn_out.raised
    /\ fn_in.failed /\ ~fn_in.trained
    /\ Len(fn_out.sales_history.quantity) >= 2
    /\ fn_out.forecast_days >= 1

----------------------------------------------------------------------------
(* Properties of the daily aggregation (SpecAggregates) *)

\* C29: after update_daily_aggregates(company, start, end) has returned, every
\* active product has, for every date of [start, end] on which it has a sales
\* transaction, an aggregate whose total_quantity is the sum of its
\* transactions of that date, whatever the sales of the other products are.
C29_AggregatesCoverSales ==
    (fn_in.op = "aggregates" /\ \E r \in fn_out : r.status = "success") =>
        \A i \in DOMAIN ActiveProducts, date \in fn_in.start_date..fn_in.end_date :
            transactions_on(fn_in.sales, ActiveProducts[i], date) # <<>> =>
                \E a \in aggregates :
                    /\ a.product = ActiveProducts[i]
                    /\ a.date = date
                    /\ a.total_quantity =
                           SeqSum(transactions_on(fn_in.sales, ActiveProducts[i], date))

----------------------------------------------------------------------------
(* Properties of the stock transfers (SpecTransfer) *)

\* the sum of quantity_available over the warehouses' snapshots of today
total_available(table) == SumOver(table, [r \in table |-> r.quantity_available])

\* C30: in every step of every interleaving of transfer_stock calls the sum of
\* quantity_available over the product's warehouses stays what it was, no
\* snapshot gets a negative quantity_available, and a call rejected for
\* insufficient stock changes no quantity and records no movement.
C30_TransfersConserveStock ==
    [][/\ total_available(snapshots') = total_available(snapshots)
       /\ \A r \in snapshots' : r.quantity_available >= 0
       /\ (\E p \in Procs :
               /\ fn_in'.call[p] # fn_in.call[p]
               /\ fn_in'.call[p].result = "Insufficient stock in source warehouse") =>
              /\ \A w \in Warehouses :
                     \A r \in snapshots' :
                         (r.warehouse = w /\ r.quantity_available # 0) => r \in snapshots
              /\ fn_out' = fn_out]_vars

====
